----------------------------- MODULE Categorizer -----------------------------
(***************************************************************************)
(* The daemon's categorisation service: one job slot shared by the scan    *)
(* that publishes dashboard rails, the couch detection that stores form    *)
(* factors and the checkpoint download, and the switch that turns the      *)
(* feature on and off while they run.                                      *)
(*                                                                         *)
(* Every HTTP request and the job it spawns is one task.  A task suspends  *)
(* at each await, so two tasks interleave between any two of its steps; a  *)
(* lock is held within a step only.  A request whose client hangs up is    *)
(* dropped at the await it has reached; the job it spawned runs on.  The   *)
(* library is one application record that is absent (None) or in one of    *)
(* Versions; what a job read of it is the version it saw.                  *)
(***************************************************************************)
CONSTANTS Requests,     \* tasks that can be in flight together
          Versions,     \* what the application's record can read as
          None          \* no record, no rails, no verdict

VARIABLES enabled,      \* the stored preference categorization_enabled
          model,        \* whether a checkpoint is on disk
          slot,         \* ScanState: running and discard
          tasks,        \* what each request is doing
          record,       \* the application in the catalog
          report,       \* categorization_reports: the version last scanned
          rails,        \* the owned collections: the version they were derived from
          verdict,      \* item_traits: the version the form factor was decided from
          leftover,     \* history: what the last switch-off could not reach
          behind        \* history: the rails were not brought up to the report

vars == <<enabled, model, slot, tasks, record, report, rails, verdict, leftover, behind>>

Records == Versions \cup {None}

Kinds == {"publish", "detect", "enable", "disable", "remove"}
Steps == {"idle", "status", "list", "compare", "claim", "run", "save", "release",
          "write", "prune", "discard", "unrail", "clear"}
Task  == [kind : Kinds, at : Steps, seen : Records, failed : BOOLEAN,
          dead : BOOLEAN, late : BOOLEAN]

\* Two fields are history: dead says that discard_running ran while the task held
\* the slot, late that another scan saved its report, or a removal discarded one,
\* between this one's release and its write.
Idle == [kind |-> "remove", at |-> "idle", seen |-> None, failed |-> FALSE,
         dead |-> FALSE, late |-> FALSE]
Free == [running |-> FALSE, discard |-> FALSE]

Holds(r)  == tasks[r].at \in {"run", "save", "release"}
Writer(r) == tasks[r].kind \in {"publish", "detect"} /\ tasks[r].at # "idle"
At(r, kind, step)  == tasks[r].kind = kind /\ tasks[r].at = step
Moved(r, step)     == tasks' = [tasks EXCEPT ![r].at = step]
Ended(r)           == tasks' = [tasks EXCEPT ![r] = Idle]
Started(r, kind, step) == tasks' = [tasks EXCEPT ![r] = [Idle EXCEPT !.kind = kind, !.at = step]]

Init ==
    /\ enabled \in BOOLEAN
    /\ model \in BOOLEAN
    /\ slot = Free
    /\ tasks = [r \in Requests |-> Idle]
    /\ record \in Records
    /\ report = None
    /\ rails = None
    /\ verdict = None
    /\ leftover = FALSE
    /\ behind = FALSE

------------------------------------------------------------------------------
(* The requests: control.rs *)

\* publish_collections, past its read of the preference.
Publish(r) ==
    /\ tasks[r].at = "idle"
    /\ enabled
    /\ Started(r, "publish", "claim")
    /\ UNCHANGED <<enabled, model, slot, record, report, rails, verdict, leftover, behind>>

\* detect_form_factors, past its read of the preference.
Detect(r) ==
    /\ tasks[r].at = "idle"
    /\ enabled
    /\ Started(r, "detect", "status")
    /\ UNCHANGED <<enabled, model, slot, record, report, rails, verdict, leftover, behind>>

\* detect_form_factors refuses while a job runs or no model is there; else it
\* spawns classify_pending.
Status(r) ==
    /\ At(r, "detect", "status")
    /\ IF slot.running \/ ~model THEN Ended(r) ELSE Moved(r, "list")
    /\ UNCHANGED <<enabled, model, slot, record, report, rails, verdict, leftover, behind>>

\* enable stores the preference before it asks for the download.
Enable(r) ==
    /\ tasks[r].at = "idle"
    /\ enabled' = TRUE
    /\ Started(r, "enable", "claim")
    /\ UNCHANGED <<model, slot, record, report, rails, verdict, leftover, behind>>

\* disable stores the preference first, so that no later request gets past it.
Disable(r) ==
    /\ tasks[r].at = "idle"
    /\ enabled' = FALSE
    /\ Started(r, "disable", "discard")
    /\ UNCHANGED <<model, slot, record, report, rails, verdict, leftover, behind>>

RemoveCollections(r) ==
    /\ tasks[r].at = "idle"
    /\ Started(r, "remove", "discard")
    /\ UNCHANGED <<enabled, model, slot, record, report, rails, verdict, leftover, behind>>

\* discard_running reaches the job in the slot and no other: a job that has not
\* claimed yet, or has released already, goes on to write.
Discard(r) ==
    /\ tasks[r].at = "discard"
    /\ slot' = [slot EXCEPT !.discard = slot.running \/ @]
    /\ tasks' = [t \in Requests |->
                    IF t = r THEN [tasks[t] EXCEPT !.at = "unrail"]
                    ELSE [tasks[t] EXCEPT !.dead = @ \/ Holds(t),
                                          !.late = @ \/ At(t, "publish", "write")]]
    /\ leftover' = IF tasks[r].kind = "disable"
                   THEN \E w \in Requests : Writer(w) /\ ~Holds(w)
                   ELSE leftover
    /\ UNCHANGED <<enabled, model, record, report, rails, verdict, behind>>

\* remove_owned, which may fail; disable goes on to the verdicts either way.
Unrail(r) ==
    /\ tasks[r].at = "unrail"
    /\ \E failed \in BOOLEAN :
          /\ rails' = IF failed THEN rails ELSE None
          /\ behind' = failed
          /\ leftover' = (leftover \/ (failed /\ tasks[r].kind = "disable"))
    /\ IF tasks[r].kind = "disable" THEN Moved(r, "clear") ELSE Ended(r)
    /\ UNCHANGED <<enabled, model, slot, record, report, verdict>>

\* clear_traits, which may fail too.
Clear(r) ==
    /\ tasks[r].at = "clear"
    /\ \E failed \in BOOLEAN :
          /\ verdict' = IF failed THEN verdict ELSE None
          /\ leftover' = (leftover \/ failed)
    /\ Ended(r)
    /\ UNCHANGED <<enabled, model, slot, record, report, rails, behind>>

\* A request that has not spawned its job yet, or spawns none.
InHandler(r) ==
    \/ tasks[r].at \in {"status", "discard", "unrail", "clear"}
    \/ tasks[r].at = "claim" /\ tasks[r].kind # "detect"

\* The client hangs up and the server drops its handler.  What the handler stored
\* stays; the removals it had not come to are left out.
HangUp(r) ==
    /\ InHandler(r)
    /\ leftover' = (leftover \/ tasks[r].kind = "disable")
    /\ behind' = (behind \/ tasks[r].at = "unrail")
    /\ Ended(r)
    /\ UNCHANGED <<enabled, model, slot, record, report, rails, verdict>>

------------------------------------------------------------------------------
(* The jobs: categorizer.rs *)

\* classify_pending reads the catalog, and what has a verdict, before it claims.
List(r) ==
    /\ At(r, "detect", "list")
    /\ tasks' = [tasks EXCEPT ![r] = [@ EXCEPT !.at = "compare", !.seen = record]]
    /\ UNCHANGED <<enabled, model, slot, record, report, rails, verdict, leftover, behind>>

\* Nothing to classify: the application is gone or its verdict is current.
Compare(r) ==
    /\ At(r, "detect", "compare")
    /\ IF tasks[r].seen \in {None, verdict} THEN Ended(r) ELSE Moved(r, "claim")
    /\ UNCHANGED <<enabled, model, slot, record, report, rails, verdict, leftover, behind>>

\* Mutant: a new job inherits the last one's discard flag.
ClaimKeepsDiscard(r) ==
    /\ tasks[r].at = "claim"
    /\ IF slot.running \/ (tasks[r].kind = "enable" /\ model)
       THEN Ended(r) /\ UNCHANGED slot
       ELSE Moved(r, "run") /\ slot' = [slot EXCEPT !.running = TRUE]
    /\ UNCHANGED <<enabled, model, record, report, rails, verdict, leftover, behind>>

\* claim, with request_download's early return when a model is there.  A taken
\* slot ends the request: scans coalesce, detection answers Busy.
Claim(r) ==
    /\ tasks[r].at = "claim"
    /\ IF slot.running \/ (tasks[r].kind = "enable" /\ model)
       THEN Ended(r) /\ UNCHANGED slot
       ELSE Moved(r, "run") /\ slot' = [running |-> TRUE, discard |-> FALSE]
    /\ UNCHANGED <<enabled, model, record, report, rails, verdict, leftover, behind>>

\* Mutant: a child that times out ends the job without giving the slot back.
RunFailsHolding(r) ==
    /\ tasks[r].at = "run"
    /\ tasks[r].kind # "publish"
    /\ \E failed \in BOOLEAN :
          /\ IF failed THEN Ended(r) ELSE Moved(r, "release")
          /\ model' = (model \/ (tasks[r].kind = "enable" /\ ~failed))
    /\ UNCHANGED <<enabled, slot, record, report, rails, verdict, leftover, behind>>

\* The child process ends, or the timeout kills it and the run fails.  A download
\* that fails may have written the checkpoint first.
Run(r) ==
    /\ tasks[r].at = "run"
    /\ tasks[r].kind # "publish"
    /\ \E failed \in BOOLEAN :
          /\ tasks' = [tasks EXCEPT ![r] = [@ EXCEPT !.at = "release", !.failed = failed]]
          /\ \/ model' = (model \/ (tasks[r].kind = "enable"))
             \/ failed /\ UNCHANGED model
    /\ UNCHANGED <<enabled, slot, record, report, rails, verdict, leftover, behind>>

\* run_scan reads the catalog and files it by rules, in process.
Scan(r) ==
    /\ At(r, "publish", "run")
    /\ \E failed \in BOOLEAN :
          tasks' = [tasks EXCEPT ![r] = [@ EXCEPT !.at = IF failed THEN "release" ELSE "save",
                                                  !.seen = record, !.failed = failed]]
    /\ UNCHANGED <<enabled, model, slot, record, report, rails, verdict, leftover, behind>>

\* It stores the report even when the job has been discarded meanwhile.
Save(r) ==
    /\ tasks[r].at = "save"
    /\ \E failed \in BOOLEAN :
          /\ tasks' = [t \in Requests |->
                IF t = r THEN [tasks[t] EXCEPT !.at = "release", !.failed = failed]
                ELSE [tasks[t] EXCEPT !.late = @ \/ (~failed /\ At(t, "publish", "write"))]]
          /\ report' = IF failed THEN report ELSE tasks[r].seen
    /\ UNCHANGED <<enabled, model, slot, record, rails, verdict, leftover, behind>>

\* Mutant: a job whose result was discarded writes it all the same.
ReleaseUndiscarded(r) ==
    /\ tasks[r].at = "release"
    /\ slot' = [slot EXCEPT !.running = FALSE]
    /\ IF tasks[r].failed \/ tasks[r].kind = "enable" THEN Ended(r) ELSE Moved(r, "write")
    /\ UNCHANGED <<enabled, model, record, report, rails, verdict, leftover, behind>>

\* Mutant: a scan that failed goes on to write its rails.
ReleaseFailed(r) ==
    /\ tasks[r].at = "release"
    /\ slot' = [slot EXCEPT !.running = FALSE]
    /\ IF slot.discard \/ tasks[r].kind = "enable" THEN Ended(r) ELSE Moved(r, "write")
    /\ UNCHANGED <<enabled, model, record, report, rails, verdict, leftover, behind>>

\* release: the slot is free and the flag read; only then is anything written.
Release(r) ==
    /\ tasks[r].at = "release"
    /\ slot' = [slot EXCEPT !.running = FALSE]
    /\ IF tasks[r].failed \/ slot.discard \/ tasks[r].kind = "enable"
       THEN Ended(r)
       ELSE Moved(r, "write")
    /\ UNCHANGED <<enabled, model, record, report, rails, verdict, leftover, behind>>

\* write_rail_collections replaces the owned rails in one transaction.
WriteRails(r) ==
    /\ At(r, "publish", "write")
    /\ \E failed \in BOOLEAN :
          /\ rails' = IF failed THEN rails ELSE tasks[r].seen
          /\ behind' = (failed \/ tasks[r].late)
    /\ Ended(r)
    /\ UNCHANGED <<enabled, model, slot, record, report, verdict, leftover>>

\* record_form_factors: nothing is written for a report without an answer.
WriteVerdicts(r) ==
    /\ At(r, "detect", "write")
    /\ \/ verdict' = tasks[r].seen /\ Moved(r, "prune")
       \/ Ended(r) /\ UNCHANGED verdict
    /\ UNCHANGED <<enabled, model, slot, record, report, rails, leftover, behind>>

\* prune drops the verdict of an application that has left the catalog.
Prune(r) ==
    /\ tasks[r].at = "prune"
    /\ verdict' = IF record = None THEN None ELSE verdict
    /\ Ended(r)
    /\ UNCHANGED <<enabled, model, slot, record, report, rails, leftover, behind>>

------------------------------------------------------------------------------
(* The surroundings *)

\* A discovery refresh rewrites the record, adds it or removes it.
CatalogChanges(v) ==
    /\ v # record
    /\ record' = v
    /\ UNCHANGED <<enabled, model, slot, tasks, report, rails, verdict, leftover, behind>>

\* The daemon stops and starts: what is stored stays, the slot and the tasks go.
Restart ==
    /\ slot' = Free
    /\ tasks' = [r \in Requests |-> Idle]
    /\ leftover' = (leftover \/ \E r \in Requests :
                       tasks[r].kind = "disable" /\ tasks[r].at # "idle")
    /\ behind' = (behind \/ \E r \in Requests : tasks[r].at # "idle")
    /\ UNCHANGED <<enabled, model, record, report, rails, verdict>>

Advance(r) ==
    \/ Status(r) \/ Discard(r) \/ Unrail(r) \/ Clear(r)
    \/ List(r) \/ Compare(r) \/ Claim(r) \/ Run(r) \/ Scan(r) \/ Save(r)
    \/ Release(r) \/ WriteRails(r) \/ WriteVerdicts(r) \/ Prune(r)

Next ==
    \/ \E r \in Requests :
          \/ Publish(r) \/ Detect(r) \/ Enable(r) \/ Disable(r) \/ RemoveCollections(r)
          \/ HangUp(r) \/ Advance(r)
    \/ \E v \in Records : CatalogChanges(v)
    \/ Restart

Spec == Init /\ [][Next]_vars

\* The runtime runs every task that is ready, and the timeout ends every child.
\* No client has to hang up.
FairSpec == Spec /\ \A r \in Requests : WF_vars(Advance(r))

------------------------------------------------------------------------------
(* Properties *)

\* The types of the service's state.
TypeOK ==
    /\ enabled \in BOOLEAN
    /\ model \in BOOLEAN
    /\ slot \in [running : BOOLEAN, discard : BOOLEAN]
    /\ tasks \in [Requests -> Task]
    /\ record \in Records /\ report \in Records
    /\ rails \in Records /\ verdict \in Records
    /\ leftover \in BOOLEAN
    /\ behind \in BOOLEAN

\* The slot is taken exactly while one job holds it, so that two jobs never run
\* at once and a job that ended never leaves running set.
SlotIsHeld ==
    /\ slot.running <=> \E r \in Requests : Holds(r)
    /\ \A r, s \in Requests : Holds(r) /\ Holds(s) => r = s

\* The discard flag release answers with is the running job's own: set when it
\* was discarded, never inherited from the job before it.
DiscardIsExact == \A r \in Requests : Holds(r) => (slot.discard <=> tasks[r].dead)

\* With the feature off and nothing in flight there are no rails and no verdicts,
\* unless a job outside the slot crossed the last switch-off, one of its removals
\* failed, or it was cut short by its client hanging up or by the daemon stopping.
OffIsClean ==
    (\A r \in Requests : tasks[r].at = "idle") /\ ~enabled /\ ~leftover
        => rails = None /\ verdict = None

\* With nothing in flight the rails are those of the stored report or none at all,
\* unless the last write was overtaken by another scan or by a removal, or failed;
\* or a removal that had discarded the running scan was cut short by its client
\* hanging up; or the daemon stopped with a request in flight.
RailsFollowReport ==
    (\A r \in Requests : tasks[r].at = "idle") /\ ~behind => rails \in {None, report}

\* A taken slot is given back, however the job ends.
SlotIsFreed == slot.running ~> ~slot.running

\* The slot's two flags say exactly who is inside and whether what they bring back
\* is still wanted: "A failure must leave `running` false, or every later request
\* would be swallowed forever."
SlotIsExact == SlotIsHeld /\ DiscardIsExact
==============================================================================

----------------------------- MODULE HostProofs -----------------------------
(***************************************************************************)
(* The categorisation service, alone and beside the bridge.  Its lemmas    *)
(* are about the instance Jobs of MCHost, whose parameters are the ones    *)
(* MCHost declares: any requests and any versions.  The last part carries  *)
(* the results over to the composition MCHost model-checks.                *)
(***************************************************************************)
EXTENDS MCHost, TLAPS

\* Zenon is the default; the leaves that need arithmetic or records name SMT.
USE Zenon


(***************************************************************************)
(* The inductive invariant, part by part.                                  *)
(***************************************************************************)

\* A job is marked discarded only while it holds the slot.
DeadHolds == \A r \in Requests : tasks[r].dead => Jobs!Holds(r)

SlotInv == Jobs!TypeOK /\ Jobs!SlotIsHeld /\ Jobs!DiscardIsExact /\ DeadHolds

\* With the feature off: either a switch-off has yet to look at the slot, or every
\* job that could still write has been discarded and what is stored is gone or
\* about to be removed.
SwitchedOff ==
    ~enabled /\ ~leftover =>
        \/ \E d \in Requests : Jobs!At(d, "disable", "discard")
        \/ /\ \A w \in Requests : Jobs!Writer(w) => Jobs!Holds(w) /\ tasks[w].dead
           /\ rails = None \/ \E d \in Requests : Jobs!At(d, "disable", "unrail")
           /\ verdict = None \/ \E d \in Requests :
                                   Jobs!At(d, "disable", "unrail") \/ Jobs!At(d, "disable",
                                   "clear")

\* A scan that saved its report and was not overtaken holds what the report says.
ScansAreCurrent ==
    \A t \in Requests :
        /\ tasks[t].at = "save" => tasks[t].kind = "publish"
        /\ Jobs!At(t, "publish", "release") /\ ~tasks[t].failed => tasks[t].seen = report
        /\ Jobs!At(t, "publish", "write") /\ ~tasks[t].late => tasks[t].seen = report

\* While a discarded scan still holds the slot, every scan that is about to write
\* was overtaken by the removal that discarded it, and no rails are there to fall
\* behind the report it is about to save.
DiscardedScan ==
    \A t \in Requests : Jobs!Holds(t) /\ tasks[t].dead =>
        /\ \A w \in Requests : Jobs!At(w, "publish", "write") => tasks[w].late
        /\ \/ behind \/ rails = None
           \/ \E u \in Requests : tasks[u].at = "unrail" \/ Jobs!At(u, "publish", "write")

\* Rails that are not the report's are about to be replaced or removed.
RailsPending ==
    \/ behind
    \/ rails \in {None, report}
    \/ \E t \in Requests : \/ tasks[t].at = "unrail" \/ Jobs!At(t, "publish", "write")
                           \/ Jobs!At(t, "publish", "release") /\ ~tasks[t].failed
                              /\ ~tasks[t].dead

RailsInv == ScansAreCurrent /\ DiscardedScan /\ RailsPending

------------------------------------------------------------------------------
(***************************************************************************)
(* Types.                                                                  *)
(***************************************************************************)

\* A worker at rest is a task.
LEMMA IdleIsTask == Jobs!Idle \in Jobs!Task
BY DEF Jobs!Idle, Jobs!Task, Jobs!Kinds, Jobs!Steps, Jobs!Records

\* What the steps make of a task is a task.
LEMMA TaskMoves ==
    ASSUME NEW t \in Jobs!Task, NEW s \in Jobs!Steps
    PROVE  [t EXCEPT !.at = s] \in Jobs!Task
BY DEF Jobs!Task

\* A worker that starts is a task.
LEMMA TaskStarts ==
    ASSUME NEW k \in Jobs!Kinds, NEW s \in Jobs!Steps
    PROVE  [Jobs!Idle EXCEPT !.kind = k, !.at = s] \in Jobs!Task
BY DEF Jobs!Task, Jobs!Idle, Jobs!Records

\* A worker that is late is a task.
LEMMA TaskIsLate ==
    ASSUME NEW t \in Jobs!Task, NEW b \in BOOLEAN
    PROVE  [t EXCEPT !.late = b] \in Jobs!Task
BY DEF Jobs!Task

\* A worker that was answered is a task.
LEMMA TaskAnswers ==
    ASSUME NEW t \in Jobs!Task, NEW s \in Jobs!Steps, NEW b \in BOOLEAN
    PROVE  [t EXCEPT !.at = s, !.failed = b] \in Jobs!Task
BY DEF Jobs!Task

\* A request's own step leaves the tasks typed, whichever of the three it takes.
LEMMA StepTypes ==
    ASSUME Jobs!TypeOK, NEW r \in Requests, NEW k \in Jobs!Kinds, NEW s \in Jobs!Steps,
           Jobs!Moved(r, s) \/ Jobs!Ended(r) \/ Jobs!Started(r, k, s)
    PROVE  tasks' \in [Requests -> Jobs!Task]
<1>1. tasks[r] \in Jobs!Task /\ tasks \in [Requests -> Jobs!Task]
  BY DEF Jobs!TypeOK
<1>2. /\ [tasks[r] EXCEPT !.at = s] \in Jobs!Task /\ Jobs!Idle \in Jobs!Task
      /\ [Jobs!Idle EXCEPT !.kind = k, !.at = s] \in Jobs!Task
  BY <1>1, IdleIsTask, TaskMoves, TaskStarts
<1>3. tasks' = [tasks EXCEPT ![r] = [tasks[r] EXCEPT !.at = s]]
   \/ tasks' = [tasks EXCEPT ![r] = Jobs!Idle]
      \/ tasks' = [tasks EXCEPT ![r] = [Jobs!Idle EXCEPT !.kind = k, !.at = s]]
  BY <1>1 DEF Jobs!Moved, Jobs!Ended, Jobs!Started
<1> QED
  BY <1>1, <1>2, <1>3

\* Every part of the service's state keeps its type.
THEOREM TypeCorrect == Jobs!Spec => []Jobs!TypeOK
<1>1. Jobs!Init => Jobs!TypeOK
  <2> SUFFICES ASSUME Jobs!Init PROVE Jobs!TypeOK
    OBVIOUS
  <2>1. tasks \in [Requests -> Jobs!Task]
    BY IdleIsTask DEF Jobs!Init
  <2>2. slot \in [running : BOOLEAN, discard : BOOLEAN]
    BY DEF Jobs!Init, Jobs!Free
  <2>3. /\ enabled \in BOOLEAN /\ model \in BOOLEAN
        /\ leftover \in BOOLEAN /\ behind \in BOOLEAN
    BY DEF Jobs!Init
  <2>4. /\ record \in Jobs!Records /\ report \in Jobs!Records
        /\ rails \in Jobs!Records /\ verdict \in Jobs!Records
    BY DEF Jobs!Init, Jobs!Records
  <2> QED
    BY <2>1, <2>2, <2>3, <2>4 DEF Jobs!TypeOK
<1>2. Jobs!TypeOK /\ [Jobs!Next]_(Jobs!vars) => Jobs!TypeOK'
  <2> SUFFICES ASSUME Jobs!TypeOK, [Jobs!Next]_(Jobs!vars) PROVE Jobs!TypeOK'
    OBVIOUS
  <2> USE DEF Jobs!TypeOK
  <2>0. {"idle", "status", "list", "compare", "claim", "run", "save", "release", "write", "prune",
         "discard", "unrail", "clear"} \subseteq Jobs!Steps
        /\ {"publish", "detect", "enable", "disable", "remove"} \subseteq Jobs!Kinds
        /\ None \in Jobs!Records
    BY DEF Jobs!Steps, Jobs!Kinds, Jobs!Records
  <2>1. ASSUME NEW r \in Requests,
               Jobs!Publish(r) \/ Jobs!Detect(r) \/ Jobs!Enable(r) \/ Jobs!Disable(r)
                  \/ Jobs!RemoveCollections(r)
        PROVE  Jobs!TypeOK'
    <3>1. tasks' \in [Requests -> Jobs!Task]
      BY <2>0, <2>1, StepTypes
         DEF Jobs!Publish, Jobs!Detect, Jobs!Enable, Jobs!Disable, Jobs!RemoveCollections
    <3> QED
      BY <2>1, <3>1
         DEF Jobs!Publish, Jobs!Detect, Jobs!Enable, Jobs!Disable, Jobs!RemoveCollections
  <2>2. ASSUME NEW r \in Requests, Jobs!Status(r) \/ Jobs!Unrail(r) \/ Jobs!Clear(r)
     \/ Jobs!Compare(r)
        PROVE  Jobs!TypeOK'
    <3>1. tasks' \in [Requests -> Jobs!Task]
      BY <2>0, <2>2, StepTypes DEF Jobs!Status, Jobs!Unrail, Jobs!Clear, Jobs!Compare
    <3> QED
      BY <2>0, <2>2, <3>1 DEF Jobs!Status, Jobs!Unrail, Jobs!Clear, Jobs!Compare
  <2>3. ASSUME NEW r \in Requests, Jobs!Claim(r) \/ Jobs!Release(r)
        PROVE  Jobs!TypeOK'
    <3>1. tasks' \in [Requests -> Jobs!Task]
      BY <2>0, <2>3, StepTypes DEF Jobs!Claim, Jobs!Release
    <3>2. slot' \in [running : BOOLEAN, discard : BOOLEAN]
      <4>1. [running |-> TRUE, discard |-> FALSE] \in [running : BOOLEAN, discard : BOOLEAN]
        OBVIOUS
      <4>2. [slot EXCEPT !.running = FALSE] \in [running : BOOLEAN, discard : BOOLEAN]
        OBVIOUS
      <4>3. slot' \in {slot, [running |-> TRUE, discard |-> FALSE],
                   [slot EXCEPT !.running = FALSE]}
        BY <2>3 DEF Jobs!Claim, Jobs!Release
      <4> QED
        BY <4>1, <4>2, <4>3
    <3> QED
      BY <2>3, <3>1, <3>2 DEF Jobs!Claim, Jobs!Release
  <2>4. ASSUME NEW r \in Requests, Jobs!WriteRails(r) \/ Jobs!WriteVerdicts(r) \/ Jobs!Prune(r)
        PROVE  Jobs!TypeOK'
    <3>1. tasks' \in [Requests -> Jobs!Task]
      BY <2>0, <2>4, StepTypes DEF Jobs!WriteRails, Jobs!WriteVerdicts, Jobs!Prune
    <3>2. tasks[r].seen \in Jobs!Records /\ tasks[r].late \in BOOLEAN
      BY DEF Jobs!Task
    <3> QED
      <4>1. rails' \in Jobs!Records /\ verdict' \in Jobs!Records
        BY <2>0, <2>4, <3>2 DEF Jobs!WriteRails, Jobs!WriteVerdicts, Jobs!Prune
      <4>2. behind' \in BOOLEAN
        BY <2>4, <3>2 DEF Jobs!WriteRails, Jobs!WriteVerdicts, Jobs!Prune
      <4> QED
        BY <2>4, <3>1, <4>1, <4>2 DEF Jobs!WriteRails, Jobs!WriteVerdicts, Jobs!Prune
  <2>5. ASSUME NEW r \in Requests, Jobs!Discard(r) PROVE Jobs!TypeOK'
    <3>1. ASSUME NEW t \in Requests PROVE tasks'[t] \in Jobs!Task
      <4>1. tasks[t] \in Jobs!Task /\ tasks[t].dead \in BOOLEAN /\ tasks[t].late \in BOOLEAN
        BY DEF Jobs!Task
      <4>2. CASE t = r
        BY <2>0, <2>5, <4>1, <4>2, TaskMoves DEF Jobs!Discard
      <4>3. CASE t # r
        <5> DEFINE b == tasks[t].dead \/ Jobs!Holds(t)
                   c == tasks[t].late \/ Jobs!At(t, "publish", "write")
        <5>1. b \in BOOLEAN /\ c \in BOOLEAN
          BY <4>1
        <5>2. tasks'[t] = [tasks[t] EXCEPT !.dead = b, !.late = c]
          BY <2>5, <4>3 DEF Jobs!Discard
        <5> HIDE DEF b, c
        <5> QED
          BY <4>1, <5>1, <5>2 DEF Jobs!Task
      <4> QED
        BY <4>2, <4>3
    <3>2. tasks' \in [Requests -> Jobs!Task]
      BY <2>5, <3>1 DEF Jobs!Discard
    <3>3. slot' \in [running : BOOLEAN, discard : BOOLEAN]
      BY <2>5 DEF Jobs!Discard
    <3>4. leftover' \in BOOLEAN
      BY <2>5 DEF Jobs!Discard
    <3> QED
      BY <2>5, <3>2, <3>3, <3>4 DEF Jobs!Discard
  <2>6. ASSUME NEW r \in Requests, Jobs!Save(r) PROVE Jobs!TypeOK'
    <3>1. PICK failed \in BOOLEAN :
            tasks' = [t \in Requests |->
                IF t = r THEN [tasks[t] EXCEPT !.at = "release", !.failed = failed]
                ELSE [tasks[t] EXCEPT !.late = @ \/ (~failed /\ Jobs!At(t, "publish", "write"))]]
      BY <2>6 DEF Jobs!Save
    <3>2. ASSUME NEW t \in Requests PROVE tasks'[t] \in Jobs!Task
      <4>1. tasks[t] \in Jobs!Task /\ tasks[t].late \in BOOLEAN
        BY DEF Jobs!Task
      <4>2. CASE t = r
        BY <2>0, <3>1, <4>1, <4>2, TaskAnswers
      <4>3. CASE t # r
        <5> DEFINE b == tasks[t].late \/ (~failed /\ Jobs!At(t, "publish", "write"))
        <5>1. b \in BOOLEAN /\ tasks'[t] = [tasks[t] EXCEPT !.late = b]
          BY <3>1, <4>1, <4>3
        <5> HIDE DEF b
        <5> QED
          BY SMT, <4>1, <5>1, TaskIsLate
      <4> QED
        BY <4>2, <4>3
    <3>3. tasks' \in [Requests -> Jobs!Task] /\ tasks[r].seen \in Jobs!Records
      BY <3>1, <3>2 DEF Jobs!Task
    <3> QED
      BY <2>6, <3>3 DEF Jobs!Save
  <2>7. ASSUME NEW r \in Requests, Jobs!List(r) \/ Jobs!Run(r) \/ Jobs!Scan(r) PROVE Jobs!TypeOK'
    <3>1. tasks \in [Requests -> Jobs!Task] /\ record \in Jobs!Records
      OBVIOUS
    <3>2. CASE Jobs!List(r)
      <4>1. [tasks[r] EXCEPT !.at = "compare", !.seen = record] \in Jobs!Task
        BY <2>0, <3>1 DEF Jobs!Task
      <4> QED
        BY <3>1, <3>2, <4>1 DEF Jobs!List
    <3>3. CASE Jobs!Run(r)
      <4>1. PICK failed \in BOOLEAN :
               tasks' = [tasks EXCEPT ![r] = [@ EXCEPT !.at = "release", !.failed = failed]]
        BY <3>3 DEF Jobs!Run
      <4>2. tasks' \in [Requests -> Jobs!Task]
        BY <2>0, <3>1, <4>1, TaskAnswers
      <4>3. model' \in BOOLEAN
        BY <3>3 DEF Jobs!Run
      <4> QED
        BY <3>3, <4>2, <4>3 DEF Jobs!Run
    <3>4. CASE Jobs!Scan(r)
      <4>1. PICK failed \in BOOLEAN :
               tasks' = [tasks EXCEPT ![r] = [@ EXCEPT !.at = IF failed THEN "release" ELSE "save",
                                                       !.seen = record, !.failed = failed]]
        BY <3>4 DEF Jobs!Scan
      <4>2. [tasks[r] EXCEPT !.at = IF failed THEN "release" ELSE "save",
                             !.seen = record, !.failed = failed] \in Jobs!Task
        BY <2>0, <3>1 DEF Jobs!Task
      <4>3. tasks' \in [Requests -> Jobs!Task]
        BY <3>1, <4>1, <4>2
      <4> QED
        BY <3>4, <4>3 DEF Jobs!Scan
    <3> QED
      BY <2>7, <3>2, <3>3, <3>4
  <2>8. ASSUME NEW v \in Jobs!Records, Jobs!CatalogChanges(v) PROVE Jobs!TypeOK'
    BY <2>8 DEF Jobs!CatalogChanges
  <2>9. CASE Jobs!Restart
    BY <2>9, IdleIsTask DEF Jobs!Restart, Jobs!Free
  <2>10. CASE UNCHANGED Jobs!vars
    BY <2>10 DEF Jobs!vars
  <2>11. ASSUME NEW r \in Requests, Jobs!HangUp(r) PROVE Jobs!TypeOK'
    <3>1. tasks' \in [Requests -> Jobs!Task]
      BY <2>0, <2>11, StepTypes DEF Jobs!HangUp
    <3> QED
      BY <2>11, <3>1 DEF Jobs!HangUp
  <2> QED
    BY <2>1, <2>2, <2>3, <2>4, <2>5, <2>6, <2>7, <2>8, <2>9, <2>10, <2>11
       DEF Jobs!Next, Jobs!Advance
<1> QED
  BY <1>1, <1>2, PTL DEF Jobs!Spec

------------------------------------------------------------------------------
(***************************************************************************)
(* What a step of request r does to the tasks, field by field.             *)
(***************************************************************************)

Others(r) == \A t \in Requests : t # r => tasks'[t] = tasks[t]

SameBut(r, to) ==
    /\ tasks'[r].at = to /\ tasks'[r].kind = tasks[r].kind /\ tasks'[r].seen = tasks[r].seen
    /\ tasks'[r].failed = tasks[r].failed /\ tasks'[r].dead = tasks[r].dead
    /\ tasks'[r].late = tasks[r].late

\* A worker that moves on keeps everything but its step.
LEMMA MovedIs ==
    ASSUME Jobs!TypeOK, NEW r \in Requests, NEW to, Jobs!Moved(r, to)
    PROVE  Others(r) /\ SameBut(r, to)
BY DEF Jobs!TypeOK, Jobs!Task, Jobs!Moved, Others, SameBut

\* A worker that ends is at rest.
LEMMA EndedIs ==
    ASSUME Jobs!TypeOK, NEW r \in Requests, Jobs!Ended(r)
    PROVE  Others(r) /\ tasks'[r].at = "idle" /\ tasks'[r].dead = FALSE
BY DEF Jobs!TypeOK, Jobs!Ended, Others, Jobs!Idle

\* A worker that starts is alive, at the given step.
LEMMA StartedIs ==
    ASSUME Jobs!TypeOK, NEW r \in Requests, NEW kind, NEW to, Jobs!Started(r, kind, to)
    PROVE  Others(r) /\ tasks'[r].at = to /\ tasks'[r].kind = kind /\ tasks'[r].dead = FALSE
BY DEF Jobs!TypeOK, Jobs!Started, Others, Jobs!Idle

\* The answer of a job, and what it read.
LEMMA AnsweredIs ==
    ASSUME Jobs!TypeOK, NEW r \in Requests, Jobs!Run(r) \/ Jobs!Scan(r)
    PROVE  /\ Others(r) /\ tasks'[r].at \in {"release", "save"}
           /\ tasks'[r].kind = tasks[r].kind /\ tasks'[r].dead = tasks[r].dead
           /\ tasks[r].kind = "publish" => tasks'[r].at = "save" \/ tasks'[r].failed
           /\ tasks[r].kind # "publish" => tasks'[r].at = "release"
<1>1. tasks[r] \in Jobs!Task /\ tasks \in [Requests -> Jobs!Task]
  BY DEF Jobs!TypeOK
<1>2. CASE Jobs!Run(r)
  <2>1. PICK failed \in BOOLEAN :
           tasks' = [tasks EXCEPT ![r] = [@ EXCEPT !.at = "release", !.failed = failed]]
    BY <1>2 DEF Jobs!Run
  <2>2. Others(r) /\ tasks'[r] = [tasks[r] EXCEPT !.at = "release", !.failed = failed]
    BY <1>1, <2>1 DEF Others
  <2> QED
    BY <1>1, <1>2, <2>2 DEF Jobs!Task, Jobs!Run
<1>3. CASE Jobs!Scan(r)
  <2>1. PICK failed \in BOOLEAN :
           tasks' = [tasks EXCEPT ![r] = [@ EXCEPT !.at = IF failed THEN "release" ELSE "save",
                                                   !.seen = record, !.failed = failed]]
    BY <1>3 DEF Jobs!Scan
  <2>2. /\ Others(r)
        /\ tasks'[r] = [tasks[r] EXCEPT !.at = IF failed THEN "release" ELSE "save",
                                        !.seen = record, !.failed = failed]
    BY <1>1, <2>1 DEF Others
  <2>3. /\ tasks'[r].at = IF failed THEN "release" ELSE "save"
        /\ tasks'[r].failed = failed
        /\ tasks'[r].kind = tasks[r].kind /\ tasks'[r].dead = tasks[r].dead
    BY <1>1, <2>2 DEF Jobs!Task
  <2> QED
    BY <1>3, <2>2, <2>3 DEF Jobs!Scan, Jobs!At
<1> QED
  BY <1>2, <1>3

\* A worker that listed goes on to compare.
LEMMA ListedIs ==
    ASSUME Jobs!TypeOK, NEW r \in Requests, Jobs!List(r)
    PROVE  /\ Others(r) /\ tasks'[r].at = "compare"
           /\ tasks'[r].kind = tasks[r].kind /\ tasks'[r].dead = tasks[r].dead
BY DEF Jobs!TypeOK, Jobs!Task, Jobs!List, Others

\* A saved report makes the scans that have yet to write late.
LEMMA SavedIs ==
    ASSUME Jobs!TypeOK, NEW r \in Requests, Jobs!Save(r)
    PROVE  /\ tasks'[r].at = "release" /\ tasks'[r].kind = tasks[r].kind
           /\ tasks'[r].seen = tasks[r].seen /\ tasks'[r].dead = tasks[r].dead
           /\ report' = IF tasks'[r].failed THEN report ELSE tasks[r].seen
           /\ \A t \in Requests \ {r} :
                 /\ tasks'[t].at = tasks[t].at /\ tasks'[t].kind = tasks[t].kind
                 /\ tasks'[t].seen = tasks[t].seen /\ tasks'[t].failed = tasks[t].failed
                 /\ tasks'[t].dead = tasks[t].dead
                 /\ tasks[t].late => tasks'[t].late
                 /\ ~tasks'[r].failed /\ Jobs!At(t, "publish", "write") => tasks'[t].late
<1>1. PICK failed \in BOOLEAN :
        /\ tasks' = [t \in Requests |->
              IF t = r THEN [tasks[t] EXCEPT !.at = "release", !.failed = failed]
              ELSE [tasks[t] EXCEPT !.late = @ \/ (~failed /\ Jobs!At(t, "publish", "write"))]]
        /\ report' = IF failed THEN report ELSE tasks[r].seen
  BY DEF Jobs!Save
<1>2. tasks'[r] = [tasks[r] EXCEPT !.at = "release", !.failed = failed] /\ tasks[r] \in Jobs!Task
  BY <1>1 DEF Jobs!TypeOK
<1>3. /\ tasks'[r].at = "release" /\ tasks'[r].kind = tasks[r].kind
      /\ tasks'[r].seen = tasks[r].seen /\ tasks'[r].dead = tasks[r].dead
      /\ tasks'[r].failed = failed
  BY <1>2 DEF Jobs!Task
<1>4. ASSUME NEW t \in Requests \ {r}
      PROVE  /\ tasks'[t].at = tasks[t].at /\ tasks'[t].kind = tasks[t].kind
             /\ tasks'[t].seen = tasks[t].seen /\ tasks'[t].failed = tasks[t].failed
             /\ tasks'[t].dead = tasks[t].dead
             /\ tasks[t].late => tasks'[t].late
             /\ ~failed /\ Jobs!At(t, "publish", "write") => tasks'[t].late
  <2> DEFINE b == tasks[t].late \/ (~failed /\ Jobs!At(t, "publish", "write"))
  <2>1. tasks'[t] = [tasks[t] EXCEPT !.late = b] /\ tasks[t] \in Jobs!Task
    BY <1>1 DEF Jobs!TypeOK
  <2> HIDE DEF b
  <2>2. /\ tasks'[t].at = tasks[t].at /\ tasks'[t].kind = tasks[t].kind
        /\ tasks'[t].seen = tasks[t].seen /\ tasks'[t].failed = tasks[t].failed
        /\ tasks'[t].dead = tasks[t].dead /\ tasks'[t].late = b
    BY <2>1 DEF Jobs!Task
  <2> QED
    BY <2>2 DEF b
<1> QED
  BY <1>1, <1>3, <1>4

\* A removal marks the holder, and the scans that have yet to write.
LEMMA DiscardedIs ==
    ASSUME Jobs!TypeOK, NEW r \in Requests, Jobs!Discard(r)
    PROVE  /\ tasks'[r].at = "unrail" /\ tasks'[r].kind = tasks[r].kind
           /\ tasks'[r].dead = tasks[r].dead
           /\ \A t \in Requests \ {r} :
                 /\ tasks'[t].at = tasks[t].at /\ tasks'[t].kind = tasks[t].kind
                 /\ tasks'[t].seen = tasks[t].seen /\ tasks'[t].failed = tasks[t].failed
                 /\ tasks'[t].dead <=> tasks[t].dead \/ Jobs!Holds(t)
                 /\ tasks'[t].late <=> tasks[t].late \/ Jobs!At(t, "publish", "write")
<1>1. tasks'[r] = [tasks[r] EXCEPT !.at = "unrail"] /\ tasks[r] \in Jobs!Task
  BY DEF Jobs!Discard, Jobs!TypeOK
<1>2. ASSUME NEW t \in Requests \ {r}
      PROVE  /\ tasks'[t].at = tasks[t].at /\ tasks'[t].kind = tasks[t].kind
             /\ tasks'[t].seen = tasks[t].seen /\ tasks'[t].failed = tasks[t].failed
             /\ tasks'[t].dead <=> tasks[t].dead \/ Jobs!Holds(t)
             /\ tasks'[t].late <=> tasks[t].late \/ Jobs!At(t, "publish", "write")
  <2> DEFINE b == tasks[t].dead \/ Jobs!Holds(t)
             c == tasks[t].late \/ Jobs!At(t, "publish", "write")
  <2>1. tasks'[t] = [tasks[t] EXCEPT !.dead = b, !.late = c] /\ tasks[t] \in Jobs!Task
    BY DEF Jobs!Discard, Jobs!TypeOK
  <2> HIDE DEF b, c
  <2>2. /\ tasks'[t].at = tasks[t].at /\ tasks'[t].kind = tasks[t].kind
        /\ tasks'[t].seen = tasks[t].seen /\ tasks'[t].failed = tasks[t].failed
        /\ tasks'[t].dead = b /\ tasks'[t].late = c
    BY <2>1 DEF Jobs!Task
  <2> QED
    BY <2>2 DEF b, c
<1>3. tasks'[r].at = "unrail" /\ tasks'[r].kind = tasks[r].kind /\ tasks'[r].dead = tasks[r].dead
  BY <1>1 DEF Jobs!Task
<1> QED
  BY <1>2, <1>3

------------------------------------------------------------------------------
(***************************************************************************)
(* The slot.                                                               *)
(***************************************************************************)

\* A request that neither held the slot nor takes it leaves it as it was.
LEMMA SlotUntouched ==
    ASSUME SlotInv, Jobs!TypeOK', NEW r \in Requests, slot' = slot, Others(r), ~Jobs!Holds(r),
           ~Jobs!Holds(r)',
           tasks'[r].dead = FALSE \/ tasks'[r].dead = tasks[r].dead
    PROVE  SlotInv'
BY DEF SlotInv, Jobs!SlotIsHeld, Jobs!DiscardIsExact, DeadHolds, Jobs!Holds, Others

\* A step of one request touches the slot only as its holder, as the claimer of
\* a free one, or to set the flag.
LEMMA SlotStep == SlotInv /\ Jobs!TypeOK' /\ [Jobs!Next]_(Jobs!vars) => SlotInv'
<1> SUFFICES ASSUME SlotInv, Jobs!TypeOK', [Jobs!Next]_(Jobs!vars) PROVE SlotInv'
  OBVIOUS
<1>0. Jobs!TypeOK
  BY DEF SlotInv
<1>1. ASSUME NEW r \in Requests,
             Jobs!Publish(r) \/ Jobs!Detect(r) \/ Jobs!Enable(r) \/ Jobs!Disable(r)
                \/ Jobs!RemoveCollections(r)
      PROVE  SlotInv'
  <2>1. Others(r) /\ tasks'[r].at \in {"claim", "status", "discard"} /\ tasks'[r].dead = FALSE
    BY <1>0, <1>1, StartedIs
       DEF Jobs!Publish, Jobs!Detect, Jobs!Enable, Jobs!Disable, Jobs!RemoveCollections
  <2> QED
    BY <1>1, <2>1, SlotUntouched
       DEF Jobs!Publish, Jobs!Detect, Jobs!Enable, Jobs!Disable, Jobs!RemoveCollections,
           Jobs!Holds
<1>2. ASSUME NEW r \in Requests, Jobs!Status(r) \/ Jobs!Unrail(r) \/ Jobs!Clear(r)
   \/ Jobs!Compare(r)
      PROVE  SlotInv'
  <2>1. Others(r) /\ tasks'[r].at \in {"idle", "list", "clear", "claim"}
        /\ (tasks'[r].dead = FALSE \/ tasks'[r].dead = tasks[r].dead)
    BY <1>0, <1>2, EndedIs, MovedIs
       DEF Jobs!Status, Jobs!Unrail, Jobs!Clear, Jobs!Compare, SameBut
  <2> QED
    BY <1>2, <2>1, SlotUntouched
       DEF Jobs!Status, Jobs!Unrail, Jobs!Clear, Jobs!Compare, Jobs!Holds, Jobs!At
<1>3. ASSUME NEW r \in Requests, Jobs!WriteRails(r) \/ Jobs!WriteVerdicts(r) \/ Jobs!Prune(r)
      PROVE  SlotInv'
  <2>1. Others(r) /\ tasks'[r].at \in {"idle", "prune"}
        /\ (tasks'[r].dead = FALSE \/ tasks'[r].dead = tasks[r].dead)
    BY <1>0, <1>3, EndedIs, MovedIs DEF Jobs!WriteRails, Jobs!WriteVerdicts, Jobs!Prune, SameBut
  <2> QED
    BY <1>3, <2>1, SlotUntouched
       DEF Jobs!WriteRails, Jobs!WriteVerdicts, Jobs!Prune, Jobs!Holds, Jobs!At
<1>4. ASSUME NEW r \in Requests, Jobs!List(r) PROVE SlotInv'
  BY <1>0, <1>4, ListedIs, SlotUntouched DEF Jobs!List, Jobs!Holds, Jobs!At
<1>5. ASSUME NEW r \in Requests, Jobs!Claim(r) PROVE SlotInv'
  <2>1. CASE slot.running \/ (tasks[r].kind = "enable" /\ model)
    BY <1>0, <1>5, <2>1, EndedIs, SlotUntouched DEF Jobs!Claim, Jobs!Holds
  <2>2. CASE ~(slot.running \/ (tasks[r].kind = "enable" /\ model))
    <3>1. \A t \in Requests : ~Jobs!Holds(t) /\ ~tasks[t].dead
      BY <2>2 DEF SlotInv, Jobs!SlotIsHeld, DeadHolds
    <3>2. /\ Others(r) /\ tasks'[r].at = "run" /\ tasks'[r].dead = tasks[r].dead
          /\ slot'.running = TRUE /\ slot'.discard = FALSE
      BY SMT, <1>0, <1>5, <2>2, MovedIs DEF Jobs!Claim, SameBut
    <3> QED
      BY <3>1, <3>2
         DEF SlotInv, Jobs!SlotIsHeld, Jobs!DiscardIsExact, DeadHolds, Jobs!Holds, Others
  <2> QED
    BY <2>1, <2>2
<1>6. ASSUME NEW r \in Requests, Jobs!Run(r) \/ Jobs!Scan(r) PROVE SlotInv'
  <2>1. /\ Others(r) /\ tasks[r].at = "run" /\ tasks'[r].at \in {"release", "save"}
        /\ tasks'[r].dead = tasks[r].dead /\ slot' = slot
    BY <1>0, <1>6, AnsweredIs DEF Jobs!Run, Jobs!Scan, Jobs!At
  <2> QED
    BY <2>1 DEF SlotInv, Jobs!SlotIsHeld, Jobs!DiscardIsExact, DeadHolds, Jobs!Holds, Others
<1>7. ASSUME NEW r \in Requests, Jobs!Save(r) PROVE SlotInv'
  <2>1. /\ tasks[r].at = "save" /\ tasks'[r].at = "release" /\ slot' = slot
        /\ tasks'[r].dead = tasks[r].dead
        /\ \A t \in Requests \ {r} : tasks'[t].at = tasks[t].at /\ tasks'[t].dead = tasks[t].dead
    BY <1>0, <1>7, SavedIs DEF Jobs!Save
  <2> QED
    BY ZenonT(40), <2>1 DEF SlotInv, Jobs!SlotIsHeld, Jobs!DiscardIsExact, DeadHolds, Jobs!Holds
<1>8. ASSUME NEW r \in Requests, Jobs!Release(r) PROVE SlotInv'
  <2>1. /\ tasks[r].at = "release" /\ Others(r) /\ tasks'[r].at \in {"idle", "write"}
        /\ tasks'[r].at = "write" => ~slot.discard /\ tasks'[r].dead = tasks[r].dead
        /\ tasks'[r].at = "idle" => tasks'[r].dead = FALSE
    <3>1. CASE tasks[r].failed \/ slot.discard \/ tasks[r].kind = "enable"
      BY <1>0, <1>8, <3>1, EndedIs DEF Jobs!Release
    <3>2. CASE ~(tasks[r].failed \/ slot.discard \/ tasks[r].kind = "enable")
      BY SMT, <1>0, <1>8, <3>2, MovedIs DEF Jobs!Release, SameBut
    <3> QED
      BY <3>1, <3>2
  <2>2. slot'.running = FALSE
    BY <1>0, <1>8 DEF Jobs!Release, Jobs!TypeOK
  <2>3. \A t \in Requests \ {r} : ~Jobs!Holds(t)
    BY <2>1 DEF SlotInv, Jobs!SlotIsHeld, Jobs!Holds
  <2>4. tasks'[r].at = "write" => ~tasks[r].dead
    BY <2>1 DEF SlotInv, Jobs!DiscardIsExact, Jobs!Holds
  <2> QED
    BY <2>1, <2>2, <2>3, <2>4
       DEF SlotInv, Jobs!SlotIsHeld, Jobs!DiscardIsExact, DeadHolds, Jobs!Holds, Others
<1>9. ASSUME NEW r \in Requests, Jobs!Discard(r) PROVE SlotInv'
  <2>1. /\ tasks[r].at = "discard" /\ tasks'[r].at = "unrail" /\ tasks'[r].dead = tasks[r].dead
        /\ \A t \in Requests \ {r} : tasks'[t].at = tasks[t].at
                                     /\ (tasks'[t].dead <=> tasks[t].dead \/ Jobs!Holds(t))
    BY <1>0, <1>9, DiscardedIs DEF Jobs!Discard
  <2>2. slot'.running = slot.running /\ (slot'.discard <=> slot.running \/ slot.discard)
    BY <1>0, <1>9 DEF Jobs!Discard, Jobs!TypeOK
  <2> QED
    BY <2>1, <2>2 DEF SlotInv, Jobs!SlotIsHeld, Jobs!DiscardIsExact, DeadHolds, Jobs!Holds
<1>10. CASE UNCHANGED <<tasks, slot>>
  BY <1>10 DEF SlotInv, Jobs!SlotIsHeld, Jobs!DiscardIsExact, DeadHolds, Jobs!Holds
<1>11. CASE Jobs!Restart
  BY <1>11
     DEF Jobs!Restart, Jobs!Idle, Jobs!Free, SlotInv, Jobs!SlotIsHeld, Jobs!DiscardIsExact,
         DeadHolds, Jobs!Holds
<1>12. ASSUME NEW r \in Requests, Jobs!HangUp(r) PROVE SlotInv'
  BY <1>0, <1>12, EndedIs, SlotUntouched DEF Jobs!HangUp, Jobs!InHandler, Jobs!Holds
<1> QED
  BY <1>1, <1>2, <1>3, <1>4, <1>5, <1>6, <1>7, <1>8, <1>9, <1>10, <1>11, <1>12
     DEF Jobs!Next, Jobs!Advance, Jobs!CatalogChanges, Jobs!vars

\* For any number of requests one job at a time holds the slot, running says
\* whether one does, and the flag it reads at its release is its own.
THEOREM SlotIsExclusive == Jobs!Spec => []SlotIsExact
<1>1. Jobs!Init /\ Jobs!TypeOK => SlotInv
  BY SMT
     DEF Jobs!Init, Jobs!Idle, Jobs!Free, SlotInv, Jobs!SlotIsHeld, Jobs!DiscardIsExact,
         DeadHolds, Jobs!Holds
<1>2. SlotInv => SlotIsExact
  BY DEF SlotInv, SlotIsExact, Jobs!SlotIsExact
<1> QED
  BY <1>1, <1>2, TypeCorrect, SlotStep, PTL DEF Jobs!Spec

------------------------------------------------------------------------------
(***************************************************************************)
(* The switch-off.                                                         *)
(***************************************************************************)

\* The part of SwitchedOff that a step of a request other than a switch-off, and
\* of no job that is about to write, leaves alone.
LEMMA OffUntouched ==
    ASSUME SwitchedOff, NEW r \in Requests, Others(r), enabled' = enabled, leftover' = leftover,
           rails' = rails \/ rails' = None, verdict' = verdict \/ verdict' = None,
           ~Jobs!At(r, "disable", "discard"), ~Jobs!At(r, "disable", "unrail"), ~Jobs!At(r,
           "disable", "clear"),
           Jobs!Writer(r)' =>
               /\ Jobs!Writer(r)
               /\ Jobs!Holds(r) /\ tasks[r].dead => Jobs!Holds(r)' /\ tasks'[r].dead
    PROVE  SwitchedOff'
BY DEF SwitchedOff, Others, Jobs!At, Jobs!Writer, Jobs!Holds

\* Every step keeps the switched-off integration clean.
LEMMA OffStep == SlotInv /\ SwitchedOff /\ [Jobs!Next]_(Jobs!vars) => SwitchedOff'
<1> SUFFICES ASSUME SlotInv, SwitchedOff, [Jobs!Next]_(Jobs!vars) PROVE SwitchedOff'
  OBVIOUS
<1>0. Jobs!TypeOK
  BY DEF SlotInv
<1>1. ASSUME NEW r \in Requests, Jobs!Publish(r) \/ Jobs!Detect(r) \/ Jobs!Enable(r)
      PROVE SwitchedOff'
  <2>1. enabled'
    BY SMT, <1>1 DEF Jobs!Publish, Jobs!Detect, Jobs!Enable
  <2> QED
    BY <2>1 DEF SwitchedOff
<1>2. ASSUME NEW r \in Requests, Jobs!Disable(r) PROVE SwitchedOff'
  <2>1. Jobs!At(r, "disable", "discard")'
    BY <1>0, <1>2, StartedIs DEF Jobs!Disable, Jobs!At
  <2> QED
    BY <2>1 DEF SwitchedOff
<1>3. ASSUME NEW r \in Requests, Jobs!RemoveCollections(r) PROVE SwitchedOff'
  <2>1. /\ Others(r) /\ tasks[r].at = "idle" /\ tasks'[r].kind = "remove"
        /\ UNCHANGED <<enabled, leftover, rails, verdict>>
    BY <1>0, <1>3, StartedIs DEF Jobs!RemoveCollections
  <2> QED
    BY <2>1, OffUntouched DEF Jobs!At, Jobs!Writer
<1>4. ASSUME NEW r \in Requests, Jobs!Discard(r) PROVE SwitchedOff'
  <2>1. /\ tasks[r].at = "discard" /\ tasks'[r].at = "unrail" /\ tasks'[r].kind = tasks[r].kind
        /\ \A t \in Requests \ {r} : /\ tasks'[t].at = tasks[t].at /\ tasks'[t].kind = tasks[t].kind
                                     /\ tasks'[t].dead <=> tasks[t].dead \/ Jobs!Holds(t)
        /\ enabled' = enabled /\ rails' = rails /\ verdict' = verdict
    BY <1>0, <1>4, DiscardedIs DEF Jobs!Discard
  <2>2. CASE tasks[r].kind = "disable"
    <3>1. leftover' <=> \E w \in Requests : Jobs!Writer(w) /\ ~Jobs!Holds(w)
      BY <1>4, <2>2 DEF Jobs!Discard
    <3> QED
      BY ZenonT(40), <2>1, <2>2, <3>1 DEF SwitchedOff, Jobs!At, Jobs!Writer, Jobs!Holds
  <2>3. CASE tasks[r].kind # "disable"
    <3>1. leftover' = leftover
      BY <1>4, <2>3 DEF Jobs!Discard
    <3> QED
      BY ZenonT(40), <2>1, <2>3, <3>1 DEF SwitchedOff, Jobs!At, Jobs!Writer, Jobs!Holds
  <2> QED
    BY <2>2, <2>3
<1>5. ASSUME NEW r \in Requests, Jobs!Unrail(r) PROVE SwitchedOff'
  <2>1. PICK failed \in BOOLEAN : /\ rails' = IF failed THEN rails ELSE None
                                  /\ leftover' = (leftover
                                     \/ (failed /\ tasks[r].kind = "disable"))
    BY <1>5 DEF Jobs!Unrail
  <2>2. CASE tasks[r].kind = "disable"
    <3>1. Others(r) /\ tasks'[r].at = "clear" /\ tasks'[r].kind = "disable"
      BY <1>0, <1>5, <2>2, MovedIs DEF Jobs!Unrail, SameBut
    <3>2. /\ ~leftover' => ~leftover /\ rails' = None
          /\ tasks[r].at = "unrail" /\ enabled' = enabled /\ verdict' = verdict
      BY <1>5, <2>1, <2>2 DEF Jobs!Unrail
    <3> QED
      BY <2>2, <3>1, <3>2 DEF SwitchedOff, Others, Jobs!At, Jobs!Writer, Jobs!Holds
  <2>3. CASE tasks[r].kind # "disable"
    <3>1. Others(r) /\ tasks'[r].at = "idle"
      BY <1>0, <1>5, <2>3, EndedIs DEF Jobs!Unrail
    <3>2. /\ leftover' <=> leftover
          /\ rails' \in {rails, None} /\ enabled' = enabled /\ verdict' = verdict
      BY <1>5, <2>1, <2>3 DEF Jobs!Unrail
    <3> QED
      BY <2>3, <3>1, <3>2 DEF SwitchedOff, Others, Jobs!At, Jobs!Writer, Jobs!Holds
  <2> QED
    BY <2>2, <2>3
<1>6. ASSUME NEW r \in Requests, Jobs!Clear(r) PROVE SwitchedOff'
  <2>1. PICK failed \in BOOLEAN : /\ verdict' = IF failed THEN verdict ELSE None
                                  /\ leftover' = (leftover \/ failed)
    BY <1>6 DEF Jobs!Clear
  <2>2. Others(r) /\ tasks[r].at = "clear" /\ tasks'[r].at = "idle"
        /\ enabled' = enabled /\ rails' = rails
    BY <1>0, <1>6, EndedIs DEF Jobs!Clear
  <2> QED
    BY <2>1, <2>2 DEF SwitchedOff, Others, Jobs!At, Jobs!Writer, Jobs!Holds
<1>7. ASSUME NEW r \in Requests, Jobs!Status(r) \/ Jobs!List(r) \/ Jobs!Compare(r)
   \/ Jobs!Claim(r) PROVE SwitchedOff'
  <2>1. /\ Others(r) /\ ~Jobs!Holds(r) /\ tasks[r].at # "idle"
        /\ tasks'[r].at = "idle" \/ tasks'[r].kind = tasks[r].kind
        /\ tasks[r].at \notin {"discard", "unrail", "clear"}
        /\ UNCHANGED <<enabled, leftover, rails, verdict>>
    BY <1>0, <1>7, EndedIs, MovedIs, ListedIs
       DEF Jobs!Status, Jobs!List, Jobs!Compare, Jobs!Claim, SameBut, Jobs!At, Jobs!Holds
  <2> QED
    BY <2>1, OffUntouched DEF Jobs!At, Jobs!Writer
<1>8. ASSUME NEW r \in Requests, Jobs!Run(r) \/ Jobs!Scan(r) PROVE SwitchedOff'
  <2>1. /\ Others(r) /\ tasks[r].at = "run" /\ Jobs!Holds(r)' /\ tasks'[r].dead = tasks[r].dead
        /\ tasks'[r].kind = tasks[r].kind
        /\ UNCHANGED <<enabled, leftover, rails, verdict>>
    BY <1>0, <1>8, AnsweredIs DEF Jobs!Run, Jobs!Scan, Jobs!At, Jobs!Holds
  <2> QED
    BY <2>1, OffUntouched DEF Jobs!At, Jobs!Writer
<1>9. ASSUME NEW r \in Requests, Jobs!Save(r) PROVE SwitchedOff'
  <2>1. /\ tasks[r].at = "save" /\ tasks'[r].at = "release" /\ tasks'[r].kind = tasks[r].kind
        /\ tasks'[r].dead = tasks[r].dead
        /\ \A t \in Requests \ {r} : tasks'[t].at = tasks[t].at /\ tasks'[t].kind = tasks[t].kind
                                     /\ tasks'[t].dead = tasks[t].dead
        /\ UNCHANGED <<enabled, leftover, rails, verdict>>
    BY <1>0, <1>9, SavedIs DEF Jobs!Save
  <2> QED
    BY SMT, <2>1 DEF SwitchedOff, Jobs!At, Jobs!Writer, Jobs!Holds
<1>10. ASSUME NEW r \in Requests, Jobs!Release(r) PROVE SwitchedOff'
  <2>1. Jobs!Holds(r) /\ (tasks[r].dead <=> slot.discard)
    BY <1>10 DEF Jobs!Release, SlotInv, Jobs!DiscardIsExact, Jobs!Holds
  <2>2. CASE tasks[r].failed \/ slot.discard \/ tasks[r].kind = "enable"
    BY <1>0, <1>10, <2>2, EndedIs, OffUntouched DEF Jobs!Release, Jobs!At, Jobs!Writer
  <2>3. CASE ~(tasks[r].failed \/ slot.discard \/ tasks[r].kind = "enable")
    <3>1. /\ Others(r) /\ tasks'[r].at = "write" /\ tasks'[r].kind = tasks[r].kind /\ ~tasks[r].dead
      BY <1>0, <1>10, <2>1, <2>3, MovedIs DEF Jobs!Release, SameBut
    <3> QED
      BY <1>10, <3>1, OffUntouched DEF Jobs!Release, Jobs!At, Jobs!Writer
  <2> QED
    BY <2>2, <2>3
<1>11. ASSUME NEW r \in Requests, Jobs!WriteRails(r) \/ Jobs!WriteVerdicts(r) PROVE SwitchedOff'
  <2>1. Jobs!Writer(r) /\ ~Jobs!Holds(r) /\ tasks[r].at = "write" /\ Others(r)
        /\ UNCHANGED <<enabled, leftover>>
    BY <1>0, <1>11, EndedIs, MovedIs
       DEF Jobs!WriteRails, Jobs!WriteVerdicts, Jobs!At, Jobs!Writer, Jobs!Holds
  <2> QED
    BY <2>1 DEF SwitchedOff, Others, Jobs!At
<1>12. ASSUME NEW r \in Requests, Jobs!Prune(r) PROVE SwitchedOff'
  BY <1>0, <1>12, EndedIs, OffUntouched DEF Jobs!Prune, Jobs!At, Jobs!Writer
<1>13. CASE UNCHANGED <<tasks, enabled, leftover, rails, verdict>>
  BY <1>13 DEF SwitchedOff, Jobs!At, Jobs!Writer, Jobs!Holds
<1>14. CASE Jobs!Restart
  BY <1>14 DEF Jobs!Restart, Jobs!Idle, SwitchedOff, Jobs!At, Jobs!Writer, Jobs!Holds
<1>15. ASSUME NEW r \in Requests, Jobs!HangUp(r) PROVE SwitchedOff'
  <2>1. CASE tasks[r].kind = "disable"
    BY <1>15, <2>1 DEF Jobs!HangUp, SwitchedOff
  <2>2. CASE tasks[r].kind # "disable"
    <3>1. /\ Others(r) /\ tasks'[r].at = "idle"
          /\ leftover' <=> leftover
          /\ UNCHANGED <<enabled, rails, verdict>>
      BY <1>0, <1>15, <2>2, EndedIs DEF Jobs!HangUp
    <3> QED
      BY <2>2, <3>1 DEF SwitchedOff, Others, Jobs!At, Jobs!Writer, Jobs!Holds
  <2> QED
    BY <2>1, <2>2
<1> QED
  BY <1>1, <1>2, <1>3, <1>4, <1>5, <1>6, <1>7, <1>8, <1>9, <1>10, <1>11, <1>12, <1>13, <1>14,
     <1>15
     DEF Jobs!Next, Jobs!Advance, Jobs!CatalogChanges, Jobs!vars

\* For any number of requests, a feature that is off and quiet has neither rails nor
\* verdicts, unless a job outside the slot crossed the last switch-off, one of its
\* removals failed, or a hang-up or a stop cut it short.
THEOREM SwitchOffIsComplete == Jobs!Spec => []OffIsClean
<1>1. Jobs!Init /\ Jobs!TypeOK => SlotInv /\ SwitchedOff
  BY SMT
     DEF Jobs!Init, Jobs!Idle, Jobs!Free, SlotInv, Jobs!SlotIsHeld, Jobs!DiscardIsExact,
         DeadHolds, Jobs!Holds, SwitchedOff, Jobs!Writer
<1>2. SwitchedOff => OffIsClean
  BY DEF SwitchedOff, OffIsClean, Jobs!OffIsClean, Jobs!At
<1> QED
  BY <1>1, <1>2, TypeCorrect, SlotStep, OffStep, PTL DEF Jobs!Spec

------------------------------------------------------------------------------
(***************************************************************************)
(* The rails.                                                              *)
(***************************************************************************)

\* A request that is not a scan past its run, and no removal, leaves them alone.
LEMMA RailsUntouched ==
    ASSUME RailsInv, NEW r \in Requests, Others(r), UNCHANGED <<rails, report, behind>>,
           tasks[r].at # "unrail", tasks'[r].at # "unrail",
           ~Jobs!At(r, "publish", "write"), ~Jobs!At(r, "publish", "write")',
           ~Jobs!At(r, "publish", "release"),
           Jobs!At(r, "publish", "release")' => tasks'[r].failed,
           tasks'[r].at = "save" => tasks'[r].kind = "publish",
           Jobs!Holds(r)' /\ tasks'[r].dead => Jobs!Holds(r) /\ tasks[r].dead
    PROVE  RailsInv'
<1>1. ScansAreCurrent'
  BY DEF RailsInv, ScansAreCurrent, Others, Jobs!At
<1>2. DiscardedScan'
  <2> SUFFICES ASSUME NEW t \in Requests, Jobs!Holds(t)', tasks'[t].dead
               PROVE  /\ \A w \in Requests : Jobs!At(w, "publish", "write")' => tasks'[w].late
                      /\ \/ behind' \/ rails' = None
                         \/ \E u \in Requests : tasks'[u].at = "unrail"
                                              \/ Jobs!At(u, "publish", "write")'
    BY DEF DiscardedScan
  <2>1. Jobs!Holds(t) /\ tasks[t].dead
    BY DEF Others, Jobs!Holds
  <2>2. /\ \A w \in Requests : Jobs!At(w, "publish", "write") => tasks[w].late
        /\ \/ behind \/ rails = None
           \/ \E u \in Requests : tasks[u].at = "unrail" \/ Jobs!At(u, "publish", "write")
    BY <2>1 DEF RailsInv, DiscardedScan
  <2> QED
    BY <2>2 DEF Others, Jobs!At
<1>3. RailsPending'
  BY DEF RailsInv, RailsPending, Others, Jobs!At
<1> QED
  BY <1>1, <1>2, <1>3 DEF RailsInv

\* Every step keeps the rails as the reports left them.
LEMMA RailsStep == SlotInv /\ RailsInv /\ [Jobs!Next]_(Jobs!vars) => RailsInv'
<1> SUFFICES ASSUME SlotInv, RailsInv, [Jobs!Next]_(Jobs!vars) PROVE RailsInv'
  OBVIOUS
<1>0. Jobs!TypeOK
  BY DEF SlotInv
<1>1. ASSUME NEW r \in Requests,
             Jobs!Publish(r) \/ Jobs!Detect(r) \/ Jobs!Enable(r) \/ Jobs!Disable(r)
                \/ Jobs!RemoveCollections(r)
      PROVE  RailsInv'
  <2>1. /\ Others(r) /\ tasks[r].at = "idle" /\ tasks'[r].at \in {"claim", "status", "discard"}
        /\ UNCHANGED <<rails, report, behind>>
    BY <1>0, <1>1, StartedIs
       DEF Jobs!Publish, Jobs!Detect, Jobs!Enable, Jobs!Disable, Jobs!RemoveCollections
  <2> QED
    BY <2>1, RailsUntouched DEF Jobs!At, Jobs!Holds
<1>2. ASSUME NEW r \in Requests, Jobs!Status(r) \/ Jobs!List(r) \/ Jobs!Compare(r)
   \/ Jobs!Clear(r)
      PROVE  RailsInv'
  <2>1. /\ Others(r) /\ tasks[r].at \in {"status", "list", "compare", "clear"}
        /\ tasks'[r].at \in {"idle", "list", "compare", "claim"}
        /\ UNCHANGED <<rails, report, behind>>
    <3>1. CASE Jobs!List(r)
      BY <1>0, <3>1, ListedIs DEF Jobs!List, Jobs!At
    <3>2. CASE Jobs!Status(r) \/ Jobs!Compare(r) \/ Jobs!Clear(r)
      <4>1. /\ tasks[r].at \in {"status", "compare", "clear"}
            /\ Jobs!Ended(r) \/ Jobs!Moved(r, "list") \/ Jobs!Moved(r, "claim")
            /\ UNCHANGED <<rails, report, behind>>
        BY <3>2 DEF Jobs!Status, Jobs!Compare, Jobs!Clear, Jobs!At
      <4> QED
        BY <1>0, <4>1, EndedIs, MovedIs DEF SameBut
    <3> QED
      BY <1>2, <3>1, <3>2
  <2> QED
    BY <2>1, RailsUntouched DEF Jobs!At, Jobs!Holds
<1>3. ASSUME NEW r \in Requests, Jobs!Claim(r) PROVE RailsInv'
  <2>1. /\ Others(r) /\ tasks[r].at = "claim" /\ ~tasks[r].dead
        /\ tasks'[r].at \in {"idle", "run"} /\ UNCHANGED <<rails, report, behind>>
        /\ tasks'[r].dead = FALSE \/ tasks'[r].dead = tasks[r].dead
    <3>1. tasks[r].at = "claim" /\ UNCHANGED <<rails, report, behind>> /\ (Jobs!Ended(r)
       \/ Jobs!Moved(r, "run"))
      BY <1>3 DEF Jobs!Claim
    <3>2. ~tasks[r].dead
      BY <3>1 DEF SlotInv, DeadHolds, Jobs!Holds
    <3> QED
      BY <1>0, <3>1, <3>2, EndedIs, MovedIs DEF SameBut
  <2> QED
    BY <2>1, RailsUntouched DEF Jobs!At, Jobs!Holds
<1>4. ASSUME NEW r \in Requests, Jobs!Run(r) \/ Jobs!Scan(r) PROVE RailsInv'
  <2>1. /\ Others(r) /\ tasks[r].at = "run" /\ tasks'[r].at \in {"release", "save"}
        /\ tasks'[r].kind = tasks[r].kind /\ tasks'[r].dead = tasks[r].dead
        /\ tasks[r].kind = "publish" => tasks'[r].at = "save" \/ tasks'[r].failed
        /\ tasks[r].kind # "publish" => tasks'[r].at = "release"
        /\ UNCHANGED <<rails, report, behind>>
    BY <1>0, <1>4, AnsweredIs DEF Jobs!Run, Jobs!Scan, Jobs!At
  <2> QED
    BY <2>1, RailsUntouched DEF Jobs!At, Jobs!Holds
<1>5. ASSUME NEW r \in Requests, Jobs!WriteVerdicts(r) \/ Jobs!Prune(r) PROVE RailsInv'
  <2>1. /\ Others(r) /\ (tasks[r].at = "prune" \/ Jobs!At(r, "detect", "write"))
        /\ tasks'[r].at \in {"idle", "prune"} /\ UNCHANGED <<rails, report, behind>>
    BY <1>0, <1>5, EndedIs, MovedIs DEF Jobs!WriteVerdicts, Jobs!Prune, SameBut
  <2>2. Others(r)
    BY <1>0, <1>5, EndedIs, MovedIs DEF Jobs!WriteVerdicts, Jobs!Prune
  <2> QED
    BY <2>1, <2>2, RailsUntouched DEF Jobs!At, Jobs!Holds
<1>6. ASSUME NEW r \in Requests, Jobs!Save(r) PROVE RailsInv'
  <2>1. /\ Jobs!Holds(r) /\ tasks[r].at = "save" /\ tasks[r].kind = "publish"
        /\ \A t \in Requests \ {r} : ~Jobs!Holds(t)
    BY <1>6 DEF Jobs!Save, SlotInv, Jobs!SlotIsHeld, Jobs!Holds, RailsInv, ScansAreCurrent
  <2>2. /\ tasks'[r].at = "release" /\ tasks'[r].kind = tasks[r].kind
        /\ tasks'[r].seen = tasks[r].seen /\ tasks'[r].dead = tasks[r].dead
        /\ report' = IF tasks'[r].failed THEN report ELSE tasks[r].seen
        /\ \A t \in Requests \ {r} :
              /\ tasks'[t].at = tasks[t].at /\ tasks'[t].kind = tasks[t].kind
              /\ tasks'[t].seen = tasks[t].seen /\ tasks'[t].failed = tasks[t].failed
              /\ tasks'[t].dead = tasks[t].dead
              /\ tasks[t].late => tasks'[t].late
              /\ ~tasks'[r].failed /\ Jobs!At(t, "publish", "write") => tasks'[t].late
    BY <1>0, <1>6, SavedIs
  <2>3. rails' = rails /\ behind' = behind
    BY <1>6 DEF Jobs!Save
  <2> USE DEF RailsInv, Jobs!At, Jobs!Holds
  <2>4. ScansAreCurrent'
    <3>1. ASSUME NEW t \in Requests \ {r}
          PROVE  /\ tasks'[t].at = "save" => tasks'[t].kind = "publish"
                 /\ ~Jobs!At(t, "publish", "release")'
                 /\ Jobs!At(t, "publish", "write")' /\ ~tasks'[t].late => tasks'[t].seen = report'
      BY SMT, <2>1, <2>2 DEF ScansAreCurrent
    <3>2. tasks'[r].at = "release" /\ (~tasks'[r].failed => tasks'[r].seen = report')
      BY <2>2
    <3> QED
      BY <3>1, <3>2 DEF ScansAreCurrent
  <2>5. DiscardedScan'
    <3> SUFFICES ASSUME tasks[r].dead
                 PROVE  /\ \A w \in Requests : Jobs!At(w, "publish", "write")' => tasks'[w].late
                        /\ \/ behind' \/ rails' = None
                           \/ \E u \in Requests : tasks'[u].at = "unrail"
                                                \/ Jobs!At(u, "publish", "write")'
      BY <2>1, <2>2 DEF DiscardedScan
    <3>1. /\ \A w \in Requests : Jobs!At(w, "publish", "write") => tasks[w].late
          /\ \/ behind \/ rails = None
             \/ \E u \in Requests : tasks[u].at = "unrail" \/ Jobs!At(u, "publish", "write")
      BY <2>1 DEF DiscardedScan
    <3> QED
      BY ZenonT(40), <2>1, <2>2, <2>3, <3>1
  <2>6. RailsPending'
    <3>1. CASE tasks'[r].failed
      BY <2>1, <2>2, <2>3, <3>1 DEF RailsPending
    <3>2. CASE ~tasks'[r].failed /\ ~tasks[r].dead
      BY <2>1, <2>2, <3>2 DEF RailsPending
    <3>3. CASE tasks[r].dead
      <4>1. \/ behind \/ rails = None
            \/ \E u \in Requests : tasks[u].at = "unrail" \/ Jobs!At(u, "publish", "write")
        BY <2>1, <3>3 DEF DiscardedScan
      <4> QED
        BY SMT, <2>1, <2>2, <2>3, <4>1 DEF RailsPending
    <3> QED
      BY <3>1, <3>2, <3>3
  <2> QED
    BY <2>4, <2>5, <2>6
<1>7. ASSUME NEW r \in Requests, Jobs!Release(r) PROVE RailsInv'
  <2>1. /\ Jobs!Holds(r) /\ tasks[r].at = "release" /\ \A t \in Requests \ {r} : ~Jobs!Holds(t)
        /\ tasks[r].dead <=> slot.discard
        /\ UNCHANGED <<rails, report, behind>>
    BY <1>7 DEF Jobs!Release, SlotInv, Jobs!SlotIsHeld, Jobs!DiscardIsExact, Jobs!Holds
  <2>2. Jobs!Holds(r) /\ tasks[r].at = "release" /\ \A t \in Requests \ {r} : ~Jobs!Holds(t)
    BY <1>7 DEF Jobs!Release, SlotInv, Jobs!SlotIsHeld, Jobs!Holds
  <2>3. CASE tasks[r].failed \/ slot.discard \/ tasks[r].kind = "enable"
    <3>1. Others(r) /\ tasks'[r].at = "idle"
      BY <1>0, <1>7, <2>3, EndedIs DEF Jobs!Release
    <3>2. ~(Jobs!At(r, "publish", "release") /\ ~tasks[r].failed /\ ~tasks[r].dead)
      BY <2>1, <2>3 DEF Jobs!At
    <3>a. ScansAreCurrent'
      BY <2>1, <2>2, <3>1, <3>2 DEF RailsInv, Jobs!At, ScansAreCurrent, Others
    <3>b. DiscardedScan'
      BY <2>1, <2>2, <3>1, <3>2 DEF RailsInv, Jobs!At, Jobs!Holds, DiscardedScan, Others
    <3>c. RailsPending'
      BY <2>1, <2>2, <3>1, <3>2 DEF RailsInv, Jobs!At, RailsPending, Jobs!Holds, Others
    <3> QED
      BY <3>a, <3>b, <3>c DEF RailsInv
  <2>4. CASE ~(tasks[r].failed \/ slot.discard \/ tasks[r].kind = "enable")
    <3>1. Others(r) /\ SameBut(r, "write")
      BY <1>0, <1>7, <2>4, MovedIs DEF Jobs!Release
    <3>2. tasks'[r].at = "write" /\ tasks'[r].kind = tasks[r].kind /\ tasks'[r].seen = tasks[r].seen
          /\ ~tasks[r].failed
      BY <2>4, <3>1 DEF SameBut
    <3>a. ScansAreCurrent'
      BY <2>1, <2>2, <3>1, <3>2 DEF RailsInv, Jobs!At, ScansAreCurrent, Others
    <3>b. DiscardedScan'
      BY <2>1, <2>2, <3>1, <3>2 DEF RailsInv, Jobs!At, Jobs!Holds, DiscardedScan, Others
    <3>c. RailsPending'
      BY <2>1, <2>2, <3>1, <3>2 DEF RailsInv, Jobs!At, RailsPending, Jobs!Holds, Others
    <3> QED
      BY <3>a, <3>b, <3>c DEF RailsInv
  <2> QED
    BY <2>3, <2>4
<1>8. ASSUME NEW r \in Requests, Jobs!WriteRails(r) PROVE RailsInv'
  <2>1. /\ Jobs!At(r, "publish", "write") /\ report' = report
        /\ behind' \/ (rails' = tasks[r].seen /\ ~tasks[r].late)
        /\ tasks[r].late => behind'
    BY <1>8 DEF Jobs!WriteRails
  <2>2. Others(r) /\ tasks'[r].at = "idle"
    BY <1>0, <1>8, EndedIs DEF Jobs!WriteRails
  <2>a. ScansAreCurrent'
    BY <2>1, <2>2 DEF RailsInv, Jobs!At, ScansAreCurrent, Others
  <2>b. DiscardedScan'
    BY <2>1, <2>2 DEF RailsInv, Jobs!At, Jobs!Holds, DiscardedScan, Others
  <2>c. RailsPending'
    BY <2>1, <2>2 DEF RailsInv, Jobs!At, RailsPending, ScansAreCurrent, Others
  <2> QED
    BY <2>a, <2>b, <2>c DEF RailsInv
<1>9. ASSUME NEW r \in Requests, Jobs!Discard(r) PROVE RailsInv'
  <2>1. /\ tasks[r].at = "discard" /\ tasks'[r].at = "unrail"
        /\ UNCHANGED <<rails, report, behind>>
        /\ \A t \in Requests \ {r} :
              /\ tasks'[t].at = tasks[t].at /\ tasks'[t].kind = tasks[t].kind
              /\ tasks'[t].seen = tasks[t].seen /\ tasks'[t].failed = tasks[t].failed
              /\ tasks'[t].late <=> tasks[t].late \/ Jobs!At(t, "publish", "write")
    BY <1>0, <1>9, DiscardedIs DEF Jobs!Discard
  <2>a. ScansAreCurrent'
    <3> SUFFICES ASSUME NEW t \in Requests
                 PROVE  /\ tasks'[t].at = "save" => tasks'[t].kind = "publish"
                        /\ Jobs!At(t, "publish", "release")' /\ ~tasks'[t].failed
                              => tasks'[t].seen = report'
                        /\ Jobs!At(t, "publish", "write")' /\ ~tasks'[t].late
                              => tasks'[t].seen = report'
      BY DEF ScansAreCurrent
    <3> QED
      BY <2>1 DEF RailsInv, Jobs!At, ScansAreCurrent
  <2>b. DiscardedScan'
    BY SMT, <2>1 DEF RailsInv, Jobs!At, Jobs!Holds, DiscardedScan
  <2>c. RailsPending'
    BY <2>1 DEF RailsInv, Jobs!At, RailsPending
  <2> QED
    BY <2>a, <2>b, <2>c DEF RailsInv
<1>10. ASSUME NEW r \in Requests, Jobs!Unrail(r) PROVE RailsInv'
  <2>1. tasks[r].at = "unrail" /\ report' = report /\ (behind' \/ rails' = None)
    BY SMT, <1>10 DEF Jobs!Unrail
  <2>2. Others(r) /\ tasks'[r].at \in {"idle", "clear"}
    BY <1>0, <1>10, EndedIs, MovedIs DEF Jobs!Unrail, SameBut
  <2>a. ScansAreCurrent'
    BY <2>1, <2>2 DEF RailsInv, Jobs!At, ScansAreCurrent, Others
  <2>b. DiscardedScan'
    BY <2>1, <2>2 DEF RailsInv, Jobs!At, Jobs!Holds, DiscardedScan, Others
  <2>c. RailsPending'
    BY <2>1, <2>2 DEF RailsInv, Jobs!At, RailsPending, Others
  <2> QED
    BY <2>a, <2>b, <2>c DEF RailsInv
<1>11. CASE UNCHANGED <<tasks, rails, report, behind>>
  BY <1>11 DEF RailsInv, Jobs!At, Jobs!Holds, ScansAreCurrent, DiscardedScan, RailsPending
<1>12. CASE Jobs!Restart
  BY <1>12
     DEF Jobs!Restart, Jobs!Idle, RailsInv, Jobs!At, Jobs!Holds, ScansAreCurrent, DiscardedScan,
         RailsPending
<1>13. ASSUME NEW r \in Requests, Jobs!HangUp(r) PROVE RailsInv'
  <2>1. /\ Others(r) /\ tasks'[r].at = "idle" /\ ~Jobs!Holds(r)
        /\ tasks[r].at \notin {"write", "release"}
        /\ UNCHANGED <<rails, report>>
        /\ behind' <=> behind \/ tasks[r].at = "unrail"
    BY <1>0, <1>13, EndedIs DEF Jobs!HangUp, Jobs!InHandler, Jobs!Holds
  <2>a. ScansAreCurrent'
    BY <2>1 DEF RailsInv, Jobs!At, ScansAreCurrent, Others
  <2>b. DiscardedScan'
    BY <2>1 DEF RailsInv, Jobs!At, Jobs!Holds, DiscardedScan, Others
  <2>c. RailsPending'
    BY <2>1 DEF RailsInv, Jobs!At, RailsPending, Others
  <2> QED
    BY <2>a, <2>b, <2>c DEF RailsInv
<1> QED
  BY <1>1, <1>2, <1>3, <1>4, <1>5, <1>6, <1>7, <1>8, <1>9, <1>10, <1>11, <1>12, <1>13
     DEF Jobs!Next, Jobs!Advance, Jobs!CatalogChanges, Jobs!vars

\* For any number of requests, rails at rest are those of the stored report, unless
\* the last write was overtaken or failed, a removal that had discarded a scan was cut
\* short by a hang-up, or the daemon stopped with a request in flight.
THEOREM RailsAreTheReports == Jobs!Spec => []RailsFollowReport
<1>1. Jobs!Init /\ Jobs!TypeOK => SlotInv /\ RailsInv
  BY SMT
     DEF Jobs!Init, Jobs!Idle, Jobs!Free, SlotInv, Jobs!SlotIsHeld, Jobs!DiscardIsExact,
         DeadHolds, Jobs!Holds, RailsInv, Jobs!At, ScansAreCurrent, DiscardedScan, RailsPending
<1>2. RailsInv => RailsFollowReport
  BY DEF RailsInv, RailsFollowReport, RailsPending, Jobs!RailsFollowReport, Jobs!At
<1> QED
  BY <1>1, <1>2, TypeCorrect, SlotStep, RailsStep, PTL DEF Jobs!Spec

------------------------------------------------------------------------------
(***************************************************************************)
(* The composition.                                                        *)
(***************************************************************************)

\* A step of the composition is a step of the categorisation service or leaves all
\* of it alone.
LEMMA HostStepsJobs == [MCNext]_allVars => [Jobs!Next]_(Jobs!vars)
<1>1. UNCHANGED jobVars => UNCHANGED Jobs!vars
  BY DEF jobVars, Jobs!vars
<1> QED
  BY <1>1, Zenon DEF MCNext, Managed, Filed, allVars, Jobs!Next, Jobs!Advance

\* The same of the bridge.  A disk that works has no use for Undo, which MCNext leaves out.
LEMMA HostStepsBridge == [MCNext]_allVars => [Next]_vars
BY Zenon DEF MCNext, Managed, Filed, allVars, Next, LaunchStep, StopStep

\* Beside the categorisation service the bridge takes only steps of its own, so what is
\* proved of it alone (PartProofs) holds of the composition.
THEOREM HostImplementsBridge == MCSpec => Spec
<1>1. MCInit => Init
  BY DEF MCInit
<1> QED
  BY <1>1, HostStepsBridge, PTL DEF MCSpec, Spec

\* Whatever else the host runs, the categorisation service behaves as it does alone,
\* and what is proved of it alone holds: the slot, the switch-off and the rails.
THEOREM HostImplementsJobs ==
    MCSpec => Jobs!Spec /\ []SlotIsExact /\ []OffIsClean /\ []RailsFollowReport
<1>1. MCInit => Jobs!Init
  BY DEF MCInit
<1>2. MCSpec => Jobs!Spec
  BY <1>1, HostStepsJobs, PTL DEF MCSpec, Jobs!Spec
<1> QED
  BY <1>2, SlotIsExclusive, SwitchOffIsComplete, RailsAreTheReports, PTL
==============================================================================

----------------------------- MODULE PlaySessions -----------------------------
(***************************************************************************)
(* The daemon's record of plays.  Launch and stop handlers ask the bridge  *)
(* and write the play journal when it answers; a watcher compares the      *)
(* journal with the bridge's active session and closes the plays that are  *)
(* over.  Handlers and watcher share nothing but the database, a handler   *)
(* may be abandoned at any await (the bridge request times out, or the     *)
(* client hangs up), and the daemon may restart.                           *)
(*                                                                         *)
(* The bridge is the slot of SessionSlot: the daemon sees what is in it,   *)
(* and a session may leave it at any moment.                               *)
(***************************************************************************)
EXTENDS Naturals

CONSTANTS Plays,        \* launch requests, one play each
          HeroicPlays,  \* those of Heroic games, which all share one session
          Heroic,       \* the session id the bridge answers for them
          Stoppers,     \* concurrent stop requests
          Watcher,      \* the session watcher
          None

Uuids == Plays \ HeroicPlays
SessionIds == Uuids \cup {Heroic}
Actors == Stoppers \cup {Watcher}

ASSUME PlayAssumption ==
    /\ HeroicPlays \subseteq Plays
    /\ Heroic \notin Plays
    /\ None \notin Plays \cup {Heroic}
    /\ Watcher \notin Stoppers

VARIABLES slot,         \* the bridge's active session
          holder,       \* for each session, the play last accepted under it
          atBridge,     \* launch requests the bridge has yet to serve
          call,         \* where each launch handler is
          journal,      \* play_sessions: the outcome of each row, or "absent"
          row,          \* and the play it was written for
          stopCall,     \* where each stop handler is
          watch,        \* where the watcher is
          todo,         \* sessions an actor is about to finish
          credit        \* history: closes answered with the play's source

vars == <<slot, holder, atBridge, call, journal, row, stopCall, watch, todo, credit>>

\* A handler that gave up, whose write failed, or that a restart overtook is lost.
Calls == {"idle", "waiting", "answered", "done", "lost"}
Outcomes == {"absent", "running", "closed", "unclosed"}

TypeOK ==
    /\ slot \in SessionIds \cup {None}
    /\ holder \in [SessionIds -> Plays \cup {None}]
    /\ atBridge \subseteq Plays
    /\ call \in [Plays -> Calls]
    /\ journal \in [SessionIds -> Outcomes]
    /\ row \in [SessionIds -> Plays \cup {None}]
    /\ stopCall \in [Stoppers -> {"idle", "waiting", "finishing"}]
    /\ watch \in {"idle", "listed", "finishing"}
    /\ todo \in [Actors -> SUBSET SessionIds]
    /\ credit \in [SessionIds -> Nat]

SessionOf(p) == IF p \in HeroicPlays THEN Heroic ELSE p

\* Whether the application is up is the bridge's business, so no session is
\* held in the slot by it here.
Bridge == INSTANCE SessionSlot WITH running <- {}

Init ==
    /\ slot = None
    /\ holder = [i \in SessionIds |-> None]
    /\ atBridge = {}
    /\ call = [p \in Plays |-> "idle"]
    /\ journal = [i \in SessionIds |-> "absent"]
    /\ row = [i \in SessionIds |-> None]
    /\ stopCall = [s \in Stoppers |-> "idle"]
    /\ watch = "idle"
    /\ todo = [a \in Actors |-> {}]
    /\ credit = [i \in SessionIds |-> 0]

launchVars == <<holder, atBridge, call>>
rowVars == <<journal, row, credit>>
finishVars == <<stopCall, watch, todo>>

------------------------------------------------------------------------------
(* Launching *)

Launch(p) ==
    /\ call[p] = "idle"
    /\ call' = [call EXCEPT ![p] = "waiting"]
    /\ atBridge' = atBridge \cup {p}
    /\ UNCHANGED <<slot, holder, rowVars, finishVars>>

\* The bridge serves a request whether or not anyone still waits for it.
BridgeAccepts(p) ==
    /\ p \in atBridge
    /\ Bridge!Take(SessionOf(p))
    /\ holder' = [holder EXCEPT ![SessionOf(p)] = p]
    /\ atBridge' = atBridge \ {p}
    /\ call' = [call EXCEPT ![p] = IF @ = "waiting" THEN "answered" ELSE @]
    /\ UNCHANGED <<rowVars, finishVars>>

BridgeRefuses(p) ==
    /\ p \in atBridge
    /\ atBridge' = atBridge \ {p}
    /\ call' = [call EXCEPT ![p] = "lost"]
    /\ UNCHANGED <<slot, holder, rowVars, finishVars>>

\* A session leaves the slot: it ended, or the next launch replaced it.
SessionEnds ==
    /\ Bridge!Release
    /\ UNCHANGED <<launchVars, rowVars, finishVars>>

\* session_started and the event after it: a row that exists is left alone, and
\* a write that fails is only logged.
RecordStart(p) ==
    LET id == SessionOf(p)
    IN  /\ call[p] = "answered"
        /\ \/ /\ journal[id] = "absent"
              /\ journal' = [journal EXCEPT ![id] = "running"]
              /\ row' = [row EXCEPT ![id] = p]
              /\ call' = [call EXCEPT ![p] = "done"]
           \/ /\ journal[id] # "absent"
              /\ call' = [call EXCEPT ![p] = "done"]
              /\ UNCHANGED <<journal, row>>
           \/ /\ call' = [call EXCEPT ![p] = "lost"]
              /\ UNCHANGED <<journal, row>>
        /\ UNCHANGED <<slot, holder, atBridge, credit, finishVars>>

\* The request to the bridge times out, or the client hangs up.
GiveUp(p) ==
    /\ call[p] \in {"waiting", "answered"}
    /\ call' = [call EXCEPT ![p] = "lost"]
    /\ UNCHANGED <<slot, holder, atBridge, rowVars, finishVars>>

------------------------------------------------------------------------------
(* Finishing a play: stop handlers and the watcher run the same code *)

Stop(s) ==
    /\ stopCall[s] = "idle"
    /\ stopCall' = [stopCall EXCEPT ![s] = "waiting"]
    /\ UNCHANGED <<slot, launchVars, rowVars, watch, todo>>

BridgeStops(s) ==
    /\ stopCall[s] = "waiting"
    /\ Bridge!Release
    /\ todo' = [todo EXCEPT ![s] = {slot}]
    /\ stopCall' = [stopCall EXCEPT ![s] = "finishing"]
    /\ UNCHANGED <<launchVars, rowVars, watch>>

\* NotFound, a unit that would not stop, or no answer at all.
StopFails(s) ==
    /\ stopCall[s] = "waiting"
    /\ stopCall' = [stopCall EXCEPT ![s] = "idle"]
    /\ UNCHANGED <<slot, launchVars, rowVars, watch, todo>>

Finishing(a) == IF a = Watcher THEN watch = "finishing" ELSE stopCall[a] = "finishing"

\* Mutant: a row that is closed already is closed, and reported, again.
CloseAgain(a, id) ==
    /\ Finishing(a)
    /\ id \in todo[a]
    /\ todo' = [todo EXCEPT ![a] = @ \ {id}]
    /\ journal' = [journal EXCEPT ![id] = "closed"]
    /\ credit' = [credit EXCEPT ![id] = @ + 1]
    /\ UNCHANGED <<slot, launchVars, row, stopCall, watch>>

\* finished.  Only the first close of a running row writes anything and is answered
\* with the play's source, which is then refreshed: unless there is no source, the
\* lookup fails, or the client of a stop hangs up first.  A close of any other row
\* does nothing, and neither does an update that fails.  The event that announces
\* the end goes out after the refresh, and after a failing update or lookup too, so
\* that it may come before the close and again with it; it is not state here.
Close(a, id) ==
    /\ Finishing(a)
    /\ id \in todo[a]
    /\ todo' = [todo EXCEPT ![a] = @ \ {id}]
    /\ \/ /\ journal[id] = "running"
          /\ journal' = [journal EXCEPT ![id] = "closed"]
          /\ credit' \in {credit, [credit EXCEPT ![id] = @ + 1]}
       \/ UNCHANGED <<journal, credit>>
    /\ UNCHANGED <<slot, launchVars, row, stopCall, watch>>

StopDone(s) ==
    /\ stopCall[s] = "finishing"
    /\ todo[s] = {}
    /\ stopCall' = [stopCall EXCEPT ![s] = "idle"]
    /\ UNCHANGED <<slot, launchVars, rowVars, watch, todo>>

\* The client of a stop request hangs up: the rest of the handler never runs.
AbandonStop(s) ==
    /\ stopCall[s] = "finishing"
    /\ todo' = [todo EXCEPT ![s] = {}]
    /\ stopCall' = [stopCall EXCEPT ![s] = "idle"]
    /\ UNCHANGED <<slot, launchVars, rowVars, watch>>

\* Mutant: the watcher looks at one open play per tick.
WatchListOne ==
    /\ watch = "idle"
    /\ \E i \in SessionIds :
        /\ journal[i] = "running"
        /\ todo' = [todo EXCEPT ![Watcher] = {i}]
    /\ watch' = "listed"
    /\ UNCHANGED <<slot, launchVars, rowVars, stopCall>>

\* reconcile lists the open plays before it asks what is active.
WatchList ==
    /\ watch = "idle"
    /\ \E i \in SessionIds : journal[i] = "running"
    /\ todo' = [todo EXCEPT ![Watcher] = {i \in SessionIds : journal[i] = "running"}]
    /\ watch' = "listed"
    /\ UNCHANGED <<slot, launchVars, rowVars, stopCall>>

\* Mutant: the active session is not kept out of the finished ones.
WatchAskAll ==
    /\ watch = "listed"
    /\ watch' = "finishing"
    /\ UNCHANGED <<slot, launchVars, rowVars, stopCall, todo>>

WatchAsk ==
    /\ watch = "listed"
    /\ todo' = [todo EXCEPT ![Watcher] = @ \ {slot}]
    /\ watch' = "finishing"
    /\ UNCHANGED <<slot, launchVars, rowVars, stopCall>>

\* Mutant: an unreachable bridge counts as "nothing is active".
WatchAskFailsOpen ==
    /\ watch = "listed"
    /\ watch' = "finishing"
    /\ UNCHANGED <<slot, launchVars, rowVars, stopCall, todo>>

\* The bridge is unreachable, or answers something else: nothing is closed.
WatchAskFails ==
    /\ watch = "listed"
    /\ todo' = [todo EXCEPT ![Watcher] = {}]
    /\ watch' = "idle"
    /\ UNCHANGED <<slot, launchVars, rowVars, stopCall>>

WatchDone ==
    /\ watch = "finishing"
    /\ todo[Watcher] = {}
    /\ watch' = "idle"
    /\ UNCHANGED <<slot, launchVars, rowVars, stopCall, todo>>

------------------------------------------------------------------------------
(* The daemon's life *)

\* sweep_running_sessions: the end of these plays was not observed.
Swept ==
    [i \in SessionIds |-> IF journal[i] = "running" THEN "unclosed" ELSE journal[i]]

\* Everything in flight is gone; the sweep at startup closes what was left open
\* (failing to is only logged) before the watcher or any handler runs.
Restart ==
    /\ call' = [p \in Plays |-> IF call[p] = "idle" THEN "idle" ELSE "lost"]
    /\ stopCall' = [s \in Stoppers |-> "idle"]
    /\ watch' = "idle"
    /\ todo' = [a \in Actors |-> {}]
    /\ journal' \in {Swept, journal}
    /\ UNCHANGED <<slot, holder, atBridge, row, credit>>

Next ==
    \/ \E p \in Plays :
        Launch(p) \/ BridgeAccepts(p) \/ BridgeRefuses(p) \/ RecordStart(p) \/ GiveUp(p)
    \/ SessionEnds
    \/ \E s \in Stoppers :
        Stop(s) \/ BridgeStops(s) \/ StopFails(s) \/ StopDone(s) \/ AbandonStop(s)
    \/ \E a \in Actors, i \in SessionIds : Close(a, i)
    \/ WatchList \/ WatchAsk \/ WatchAskFails \/ WatchDone
    \/ Restart

Spec == Init /\ [][Next]_vars

\* The watcher ticks for ever; the bridge answers it again and again, and the
\* database closes a row it is asked to close again and again.
Fairness ==
    /\ WF_vars(WatchList) /\ SF_vars(WatchAsk) /\ WF_vars(WatchDone)
    /\ \A i \in SessionIds : SF_vars(Close(Watcher, i) /\ journal'[i] # "running")

FairSpec == Spec /\ Fairness

------------------------------------------------------------------------------
(* What must hold *)

\* A play whose session has an id of its own is closed, and its end announced, only
\* after it has really ended: no interleaving of watcher, stop handlers, replacing
\* launches, failing updates and late answers records an end and a duration for a
\* play that goes on, or brings anyone to the point of closing and announcing it.
ClosedOnlyAfterEnd ==
    \A i \in Uuids :
        journal[i] = "closed" \/ (\E a \in Actors : Finishing(a) /\ i \in todo[a])
            => slot # i

\* "A press of Stop and the watcher noticing the same exit cannot both take credit
\* for it": whatever they raced and however often an update failed and was tried
\* again, at most one close of a row is answered with its source, so that the source
\* is refreshed at most once for it.  The event that announces the end may repeat.
CreditedOnce ==
    \A i \in SessionIds : credit[i] <= 1

\* A play in progress whose launch was recorded has an open row of its own: not
\* the watcher, nor a stop request for another session, nor a late answer ends
\* it early.  Only a restart of the daemon may.
OpenWhilePlaying ==
    \A i \in Uuids : slot = i /\ call[i] = "done" => journal[i] = "running" /\ row[i] = i

\* Every play that is over is closed sooner or later, also when the answer to
\* its launch was recorded after it had already ended.
EndedPlaysAreClosed ==
    \A i \in SessionIds :
        (journal[i] = "running" /\ slot # i) ~> (journal[i] # "running" \/ slot = i)

\* "One row per play, not per item": a launch that has been answered and recorded
\* has a row of its own in the journal.
OneRowPerPlay ==
    \A p \in Plays :
        holder[SessionOf(p)] = p /\ call[p] = "done" => row[SessionOf(p)] = p
==============================================================================

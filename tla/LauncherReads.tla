---------------------------- MODULE LauncherReads ----------------------------
(***************************************************************************)
(* How the launcher keeps the library catalog and the dashboard's rails    *)
(* fresh: a read at startup, a read for every event of the daemon's change *)
(* feed, a retry chain for a read that failed, and for the rails a slow    *)
(* tick while the dashboard is up.  The daemon changes at any moment; a    *)
(* read takes what the daemon holds when it is served, and is applied when *)
(* its answer is delivered, possibly after later reads began.              *)
(*                                                                         *)
(* The two resources share the feed and nothing else, so a behaviour is    *)
(* about one of them, chosen at the start.  What the daemon holds of it is *)
(* a version; a read is its place in the order of requests - the latest or *)
(* not - and the version it brought.                                       *)
(***************************************************************************)
EXTENDS Integers, Sequences, FiniteSets

CONSTANTS MaxChanges,       \* changes the daemon makes
          MaxUnheard,       \* events of the feed unhandled
          MaxFailures,      \* reads that fail before the daemon answers for good
          MaxDrops,         \* times the feed drops, or skips an event
          MaxLoads          \* flags written, and rails removed

VARIABLES
    resource,   \* "catalog" or "collections"
    truth,      \* its version at the daemon
    shown,      \* the version the launcher draws
    out,        \* the reads out
    retrying,   \* Retries: its read is in a retry chain
    feed,       \* the feed: "new" until it first connects, then "opening" until the
                \* daemon listens for it, "up" or "down"
    events,     \* what the feed delivered and the launcher has not handled
    dashboard,  \* the dashboard is on screen
    failures, drops, loads,
    missed      \* history: a change went by that nothing is going to notice

bounds == <<failures, drops, loads>>
daemon == <<resource, truth, feed>>
vars == <<daemon, shown, out, retrying, events, dashboard, bounds, missed>>

\* What a read that has no version yet has brought, and what nothing shows.
Unserved == -1
Lost == -2
Nothing == -1

Waiting == [latest |-> TRUE, got |-> Unserved]

\* Mutant: a feed that came back is not taken to have missed anything.
StaleUnlessResumed(event) ==
    event = "library" \/ (event = "session" /\ resource = "collections")

\* What a daemon event, or the feed coming back, makes stale: a play that began
\* or ended moves the rails alone.
StaleAfter(event) == event = "session" => resource = "collections"

Init ==
    /\ resource \in {"catalog", "collections"}
    /\ truth = 0 /\ shown = Nothing
    /\ out = {Waiting}
    /\ retrying = FALSE
    /\ feed = "new" /\ events = <<>>
    /\ dashboard = TRUE
    /\ failures = 0 /\ drops = 0 /\ loads = 0
    /\ missed = FALSE

-----------------------------------------------------------------------------
(***************************************************************************)
(* Reads.                                                                  *)
(***************************************************************************)

\* A read is out whose answer counts and that sees what the daemon holds now:
\* it is not served yet, was served it, or failed and will be retried.
Coming == \E q \in out : q.latest /\ q.got \in {Unserved, Lost, truth}

\* Mutant: a new read does not take the identity of the ones before it.
BeginBeside == out \cup {Waiting}

\* A new read takes the identity: what was out before it will be ignored.
Begin == {[q EXCEPT !.latest = FALSE] : q \in out} \cup {Waiting}

\* Reads again, unless a retry chain is reading already.
Refresh ==
    /\ out' = IF retrying THEN out ELSE Begin
    /\ missed' = (retrying /\ (missed \/ ~Coming))

\* The daemon serves a read, or the read fails: refused, or out of time.
Serve(q) ==
    /\ q \in out /\ q.got = Unserved
    /\ \/ out' = (out \ {q}) \cup {[q EXCEPT !.got = truth]} /\ failures' = failures
       \/ /\ failures < MaxFailures /\ failures' = failures + 1
          /\ out' = (out \ {q}) \cup {[q EXCEPT !.got = Lost]}
    /\ UNCHANGED <<daemon, shown, retrying, events, dashboard, drops, loads, missed>>

\* The answer of a read.  Only the latest may be drawn, or be retried; the chain
\* of retries lives until one of them succeeds.
Deliver(q) ==
    /\ q \in out /\ q.got # Unserved
    /\ \/ ~q.latest /\ out' = out \ {q} /\ UNCHANGED <<shown, retrying>>
       \/ /\ q.latest /\ q.got = Lost
          /\ retrying' = TRUE
          /\ out' = (out \ {q}) \cup {Waiting}
          /\ UNCHANGED shown
       \/ /\ q.latest /\ q.got # Lost
          /\ shown' = q.got
          /\ retrying' = FALSE
          /\ out' = out \ {q}
    /\ UNCHANGED <<daemon, events, dashboard, bounds, missed>>

-----------------------------------------------------------------------------
(***************************************************************************)
(* The daemon and its change feed.                                         *)
(***************************************************************************)

\* The daemon's data changes and it says so, to the feeds it sends to.
Change(kind) ==
    /\ truth' = IF StaleAfter(kind) THEN truth + 1 ELSE truth
    /\ truth' <= MaxChanges /\ Len(events) < MaxUnheard
    /\ events' = IF feed = "up" THEN Append(events, kind) ELSE events
    /\ UNCHANGED <<resource, feed, shown, out, retrying, dashboard, bounds>>
    /\ missed' = (missed \/ (StaleAfter(kind) /\ feed \in {"new", "opening"} /\ ~Coming'))

\* The rails change and the daemon does not say so: a curated collection is edited,
\* by this launcher or by another client.
EditCollection ==
    /\ resource = "collections" /\ truth < MaxChanges
    /\ truth' = truth + 1
    /\ UNCHANGED <<resource, feed, shown, out, retrying, events, dashboard, bounds>>
    /\ missed' = (missed \/ ~Coming')

\* A reconnection says that whatever was said meanwhile was missed; the first
\* connection says nothing.
FeedConnects ==
    /\ feed \in {"new", "down"}
    /\ feed' = "opening"
    /\ events' = IF feed = "down" THEN Append(events, "resumed") ELSE events
    /\ UNCHANGED <<resource, truth, shown, out, retrying, dashboard, bounds, missed>>

\* The daemon subscribes to its own changes once the connection is made.
FeedSubscribes ==
    /\ feed = "opening"
    /\ feed' = "up"
    /\ UNCHANGED <<resource, truth, shown, out, retrying, events, dashboard, bounds, missed>>

\* A feed that reads too slowly loses events, never the newest, and stays up.
FeedLags ==
    /\ feed = "up" /\ drops < MaxDrops /\ drops' = drops + 1
    /\ \E i \in 1 .. Len(events) - 1 :
          /\ \A j \in i .. Len(events) : events[j] # "resumed"
          /\ events' = [k \in 1 .. Len(events) - 1 |-> events[IF k < i THEN k ELSE k + 1]]
          /\ missed' = (missed \/ (StaleAfter(events[i]) /\ ~Coming))
    /\ UNCHANGED <<daemon, shown, out, retrying, dashboard, failures, loads>>

\* The feed drops, with the events its socket still held.
FeedDrops ==
    /\ feed \in {"opening", "up"} /\ drops < MaxDrops
    /\ feed' = "down" /\ drops' = drops + 1
    /\ \E n \in 0 .. Len(events) : events' = SubSeq(events, 1, n)
    /\ UNCHANGED <<resource, truth, shown, out, retrying, dashboard, failures, loads, missed>>

DaemonChanged ==
    /\ events # <<>>
    /\ events' = Tail(events)
    /\ IF StaleAfter(Head(events)) THEN Refresh ELSE UNCHANGED <<out, missed>>
    /\ UNCHANGED <<daemon, shown, retrying, dashboard, bounds>>

-----------------------------------------------------------------------------
(***************************************************************************)
(* What the launcher asks for by itself.                                   *)
(***************************************************************************)

\* The catalog is read for none of what follows.
LeaveDashboard ==
    /\ dashboard /\ resource = "collections"
    /\ dashboard' = FALSE
    /\ UNCHANGED <<daemon, shown, out, retrying, events, bounds, missed>>

\* Landing on the dashboard reads its rails.
RefreshDashboard ==
    /\ ~dashboard /\ resource = "collections"
    /\ dashboard' = TRUE
    /\ Refresh
    /\ UNCHANGED <<daemon, shown, retrying, events, bounds>>

\* The hourly tick: every read before it was answered, or ran out of time, long
\* before.
DashboardTick ==
    /\ dashboard /\ resource = "collections"
    /\ ~ \E q \in out : q.latest
    /\ Refresh
    /\ UNCHANGED <<daemon, shown, retrying, events, dashboard, bounds>>

\* A flag written from the details screen, or the model's rails removed: the
\* rails are read again, chain or no chain.
LoadCollections ==
    /\ resource = "collections"
    /\ loads < MaxLoads /\ loads' = loads + 1
    /\ out' = Begin
    /\ missed' = FALSE
    /\ UNCHANGED <<daemon, shown, retrying, events, dashboard, failures, drops>>

Next ==
    \/ \E q \in out : Serve(q)
    \/ \E q \in out : Deliver(q)
    \/ \E kind \in {"library", "session"} : Change(kind)
    \/ EditCollection
    \/ FeedConnects
    \/ FeedSubscribes
    \/ FeedLags
    \/ FeedDrops
    \/ DaemonChanged
    \/ LeaveDashboard
    \/ RefreshDashboard
    \/ DashboardTick
    \/ LoadCollections

Spec == Init /\ [][Next]_vars

\* Reads are served and their answers delivered, the feed's loop reconnects, its
\* events are handled, and the tick's subscription fires.
FairSpec ==
    /\ Spec
    /\ WF_vars(\E q \in out : Serve(q))
    /\ WF_vars(\E q \in out : Deliver(q))
    /\ WF_vars(FeedConnects) /\ WF_vars(DaemonChanged) /\ WF_vars(DashboardTick)

-----------------------------------------------------------------------------
(***************************************************************************)
(* What the launcher promises.                                             *)
(***************************************************************************)

\* Every part of the state has its type.
TypeOK ==
    /\ resource \in {"catalog", "collections"}
    /\ truth \in 0 .. MaxChanges /\ shown \in Nothing .. MaxChanges
    /\ out \subseteq [latest : BOOLEAN, got : Lost .. MaxChanges]
    /\ feed \in {"new", "opening", "up", "down"}
    /\ events \in Seq({"library", "session", "resumed"})
    /\ {retrying, dashboard, missed} \subseteq BOOLEAN

\* A flag that holds other reads back is backed by a read that is out and will be
\* drawn or retried - no request is ever left to a chain that has died - and no
\* two reads that are out can both be drawn.
ChainIsAlive ==
    /\ retrying => \E q \in out : q.latest
    /\ Cardinality({q \in out : q.latest}) <= 1

\* What is drawn falls behind the daemon only while something that will catch up
\* is on its way - a read, an event, a feed that will say it was down - or after a
\* change nothing was going to tell of when it was made.  Those are a change before
\* the daemon listens for a feed that connects, one announced in an event a slow
\* feed skipped, one that is not announced at all, and one announced while the
\* answer of a retry, read before it, was still on its way.  Only the rails on
\* screen have a floor under these (RailsCatchUp).
StaleIsNoticed ==
    shown # truth =>
        \/ Coming
        \/ \E i \in DOMAIN events : StaleAfter(events[i])
        \/ feed = "down"
        \/ missed

\* An answer that was overtaken is never drawn over a newer one.
NeverOlder == [][shown' >= shown]_vars

\* Whatever the feed and the reads did, a dashboard that stays up ends on the
\* daemon's rails: the tick is the floor under the feed.
RailsCatchUp == <>[]dashboard => <>[](resource = "collections" => shown = truth)

\* What holds other reads back, and what is known to be out of date, is backed by
\* something under way.
ReadsAreBacked == ChainIsAlive /\ StaleIsNoticed

\* What is drawn never goes back, and on a dashboard that stays up it arrives.
DrawnCatchesUp == NeverOlder /\ RailsCatchUp
=============================================================================

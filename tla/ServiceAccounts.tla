--------------------------- MODULE ServiceAccounts ---------------------------
(***************************************************************************)
(* An account with a remote service, and what the daemon makes of it: the  *)
(* link that produces a credential, the credential, the worker that reads  *)
(* the service with it, and the catalog rows it publishes.                 *)
(*                                                                         *)
(* Requests are handled concurrently; between two awaits of one handler    *)
(* another request, the worker or a restart may come in, and a handler is  *)
(* dropped where it stands when a call fails or its client hangs up.       *)
(*                                                                         *)
(* Three services are linked in three ways.  Stremio hands out a code that *)
(* is approved elsewhere; RomM does the same, or takes a password or a     *)
(* token; TMDB takes a key.  Stremio and TMDB fill the catalog, RomM is    *)
(* read on demand.  Which one it is does not change.                       *)
(***************************************************************************)
EXTENDS Naturals

CONSTANTS Handlers,     \* requests handled at a time
          None,
          MaxKeys,      \* bound on codes, keys and tokens handed out
          MaxVersion,   \* bound on changes at the service
          MaxFaults     \* bound on failing refreshes and faults

ASSUME AccountAssumption ==
    /\ MaxKeys \in Nat /\ MaxVersion \in Nat /\ MaxFaults \in Nat
    /\ None \notin Nat \cup (Nat \X Nat)

VARIABLES service,      \* which service this is
          pending,      \* LinkState::pending: the code on offer
          credential,   \* the stored key; a key bears the number of its code
          issued,       \* codes and keys handed out so far
          handler,      \* where each request is, and the code or key it carries
          version,      \* what the service holds: it changes under the reader
          rows,         \* catalog rows: whose they are, and of which version
          cached,       \* StremioProvider::cached: a digest and its records
          mail,         \* the worker's channel holds a refresh
          queued, running,   \* RefreshState
          worker,       \* where the worker is, with the key and data it has read
          faults,
          course,       \* history: how each unlinking under way is going
          unlinked      \* history: how the last one that finished went

vars == <<service, pending, credential, issued, handler, version, rows, cached, mail, queued,
          running, worker, faults, course, unlinked>>

linkVars == <<pending, credential, issued>>
workerVars == <<cached, mail, queued, running, worker>>
historyVars == <<course, unlinked>>

Keys == 1..MaxKeys
Versions == 0..MaxVersion
Data == Keys \X Versions     \* an account's library at one version

Steps == {"idle", "offer", "poll", "mint", "save", "refresh", "clearKey", "clearRows"}
\* An unlinking is overtaken by a wish to link ("no"), or raced by something that
\* was under way before it ("raced"), or neither.
Courses == {"no", "clean", "raced"}
WorkerSteps == {"idle", "received", "reading", "asking", "getting", "publishing", "finishing"}

TypeOK ==
    /\ service \in {"stremio", "romm", "tmdb"}
    /\ pending \in Keys \cup {None} /\ credential \in Keys \cup {None}
    /\ issued \in 0..MaxKeys
    /\ handler \in [Handlers -> [at : Steps, key : Keys \cup {None}]]
    /\ version \in Versions
    /\ rows \in Data \cup {None}
    /\ cached \in [digest : Data, records : Data] \cup {None}
    /\ mail \in BOOLEAN /\ queued \in BOOLEAN /\ running \in BOOLEAN
    /\ worker \in [at : WorkerSteps, key : Keys \cup {None}, data : Data \cup {None}]
    /\ faults \in 0..MaxFaults
    /\ course \in [Handlers -> Courses] /\ unlinked \in Courses

Idle == [at |-> "idle", key |-> None]
Resting == [at |-> "idle", key |-> None, data |-> None]

Init ==
    /\ service \in {"stremio", "romm", "tmdb"}
    /\ pending = None /\ credential = None /\ issued = 0
    /\ handler = [h \in Handlers |-> Idle]
    /\ version = 0
    /\ rows = None /\ cached = None
    /\ mail = FALSE /\ queued = FALSE /\ running = FALSE
    /\ worker = Resting
    /\ faults = 0
    /\ course = [h \in Handlers |-> "no"] /\ unlinked = "no"

Goes(h, at, key) == handler' = [handler EXCEPT ![h] = [at |-> at, key |-> key]]

\* The user wants an account: an unlinking is no longer the last word.
Wanted == course' = [h \in Handlers |-> "no"] /\ unlinked' = "no"

------------------------------------------------------------------------------
(* Linking *)

StartLink(h) ==
    /\ handler[h].at = "idle"
    /\ service \in {"stremio", "romm"}
    /\ Goes(h, "offer", None)
    /\ Wanted
    /\ UNCHANGED <<service, linkVars, version, rows, workerVars, faults>>

\* The service has answered with a code; it replaces any earlier offer.
Offer(h) ==
    /\ handler[h].at = "offer"
    /\ issued < MaxKeys
    /\ issued' = issued + 1
    /\ pending' = issued'
    /\ Goes(h, "idle", None)
    /\ UNCHANGED <<service, credential, version, rows, workerVars, faults, historyVars>>

\* The lock is not held while the service is asked about the code.
PollLink(h) ==
    /\ handler[h].at = "idle"
    /\ pending # None
    /\ Goes(h, "poll", pending)
    /\ UNCHANGED <<service, linkVars, version, rows, workerVars, faults, historyVars>>

PollWaits(h) ==
    /\ handler[h].at = "poll"
    /\ Goes(h, "idle", None)
    /\ UNCHANGED <<service, linkVars, version, rows, workerVars, faults, historyVars>>

\* Expired or denied: whatever is on offer by now is withdrawn.
PollEnds(h) ==
    /\ handler[h].at = "poll"
    /\ pending' = None
    /\ Goes(h, "idle", None)
    /\ UNCHANGED <<service, credential, issued, version, rows, workerVars, faults, historyVars>>

PollLinked(h) ==
    /\ handler[h].at = "poll"
    /\ pending' = None
    /\ Goes(h, "save", handler[h].key)
    /\ UNCHANGED <<service, credential, issued, version, rows, workerVars, faults, historyVars>>

Login(h) ==
    /\ handler[h].at = "idle"
    /\ service = "romm"
    /\ Goes(h, "mint", None)
    /\ Wanted
    /\ UNCHANGED <<service, linkVars, version, rows, workerVars, faults>>

Minted(h) ==
    /\ handler[h].at = "mint"
    /\ issued < MaxKeys
    /\ issued' = issued + 1
    /\ pending' = None
    /\ Goes(h, "save", issued')
    /\ UNCHANGED <<service, credential, version, rows, workerVars, faults, historyVars>>

\* A key or token that the user has typed in.
UpdateSettings(h) ==
    /\ handler[h].at = "idle"
    /\ service \in {"romm", "tmdb"}
    /\ issued < MaxKeys
    /\ issued' = issued + 1
    /\ Goes(h, "save", issued')
    /\ Wanted
    /\ UNCHANGED <<service, pending, credential, version, rows, workerVars, faults>>

Save(h) ==
    /\ handler[h].at = "save"
    /\ credential' = handler[h].key
    /\ Goes(h, IF service = "tmdb" THEN "refresh" ELSE "idle", None)
    /\ UNCHANGED <<service, pending, issued, version, rows, workerVars, faults, historyVars>>

------------------------------------------------------------------------------
(* Unlinking *)

HoldsKey == worker.at \in {"asking", "getting", "publishing"} /\ worker.key # None

Starting(h) ==
    LET under == {handler[g].at : g \in Handlers}
    IN  course' = [course EXCEPT ![h] = IF under \cap {"offer", "mint"} # {} THEN "no"
                                        ELSE IF under \cap {"poll", "save"} # {} THEN "raced"
                                        ELSE "clean"]

\* Mutant: the offer is not withdrawn.
ClearOffered(h) ==
    /\ handler[h].at = "idle"
    /\ UNCHANGED pending
    /\ Goes(h, "clearKey", None)
    /\ Starting(h)
    /\ UNCHANGED <<service, credential, issued, version, rows, workerVars, faults, unlinked>>

Clear(h) ==
    /\ handler[h].at = "idle"
    /\ pending' = None
    /\ Goes(h, "clearKey", None)
    /\ Starting(h)
    /\ UNCHANGED <<service, credential, issued, version, rows, workerVars, faults, unlinked>>

Finished(h) == unlinked' = course[h]

ClearKey(h) ==
    /\ handler[h].at = "clearKey"
    /\ credential' = None
    /\ IF service = "romm"
       THEN Goes(h, "idle", None) /\ Finished(h) /\ UNCHANGED course
       ELSE /\ Goes(h, "clearRows", None)
            /\ course' = [course EXCEPT ![h] = IF HoldsKey /\ @ = "clean" THEN "raced" ELSE @]
            /\ UNCHANGED unlinked
    /\ UNCHANGED <<service, pending, issued, version, rows, workerVars, faults>>

ClearRows(h) ==
    /\ handler[h].at = "clearRows"
    /\ rows' = None
    /\ Goes(h, "idle", None)
    /\ Finished(h)
    /\ UNCHANGED <<service, linkVars, version, workerVars, faults, course>>

\* A call fails, or the client hangs up: the rest of the handler never runs.
Abandon(h) ==
    /\ handler[h].at # "idle"
    /\ Goes(h, "idle", None)
    /\ UNCHANGED <<service, linkVars, version, rows, workerVars, faults, historyVars>>

------------------------------------------------------------------------------
(* The worker that reads the service *)

\* Mutant: a refresh is queued behind one that runs.
EnqueueBehind ==
    IF queued THEN UNCHANGED <<mail, queued>> ELSE mail' = TRUE /\ queued' = TRUE

\* enqueue: at most one refresh is queued or running.
Enqueue ==
    IF running \/ queued THEN UNCHANGED <<mail, queued>> ELSE mail' = TRUE /\ queued' = TRUE

\* The timer ticks, or a client asks for a refresh.
Tick ==
    /\ service # "romm"
    /\ Enqueue
    /\ UNCHANGED <<service, linkVars, handler, version, rows, cached, running, worker, faults,
                   historyVars>>

\* refresh_arrivals, after a key was stored.
Refresh(h) ==
    /\ handler[h].at = "refresh"
    /\ Enqueue
    /\ Goes(h, "idle", None)
    /\ UNCHANGED <<service, linkVars, version, rows, cached, running, worker, faults, historyVars>>

Receive ==
    /\ worker.at = "idle"
    /\ mail
    /\ mail' = FALSE
    /\ worker' = [worker EXCEPT !.at = "received"]
    /\ UNCHANGED <<service, linkVars, handler, version, rows, cached, queued, running, faults,
                   historyVars>>

Begin ==
    /\ worker.at = "received"
    /\ queued' = FALSE /\ running' = TRUE
    /\ worker' = [worker EXCEPT !.at = "reading"]
    /\ UNCHANGED <<service, linkVars, handler, version, rows, cached, mail, faults, historyVars>>

\* Mutant: without a credential there is nothing to do.
ReadKeyOrSkip ==
    /\ worker.at = "reading"
    /\ worker' = [at |-> IF credential = None THEN "finishing" ELSE "asking",
                  key |-> credential, data |-> None]
    /\ UNCHANGED cached
    /\ UNCHANGED <<service, linkVars, handler, version, rows, mail, queued, running, faults,
                   historyVars>>

\* Without a credential the snapshot is empty, which is not an error: it clears
\* what a previous link left behind.
ReadKey ==
    /\ worker.at = "reading"
    /\ worker' = [at |-> IF credential = None THEN "publishing" ELSE "asking",
                  key |-> credential, data |-> None]
    /\ cached' = IF credential = None THEN None ELSE cached
    /\ UNCHANGED <<service, linkVars, handler, version, rows, mail, queued, running, faults,
                   historyVars>>

Now == <<worker.key, version>>

\* TMDB's two lists are one here, read at once (if one of them fails, the other
\* is published, which is not told apart).  Stremio is first asked for a digest, and only
\* a digest that is not the cached one makes the worker read the library.
Ask ==
    /\ worker.at = "asking"
    /\ worker' = IF service = "tmdb"
                 THEN [worker EXCEPT !.at = "publishing", !.data = Now]
                 ELSE IF cached # None /\ cached.digest = Now
                 THEN [worker EXCEPT !.at = "publishing", !.data = cached.records]
                 ELSE [worker EXCEPT !.at = "getting", !.data = Now]
    /\ UNCHANGED <<service, linkVars, handler, version, rows, cached, mail, queued, running,
                   faults, historyVars>>

\* Mutant: the library is read first, and the digest that is kept with it later.
GetBeforeDigest ==
    /\ worker.at = "getting"
    /\ cached' = [digest |-> Now, records |-> worker.data]
    /\ worker' = [worker EXCEPT !.at = "publishing"]
    /\ UNCHANGED <<service, linkVars, handler, version, rows, mail, queued, running, faults,
                   historyVars>>

\* The library may be newer than the digest it is cached under.
Get ==
    /\ worker.at = "getting"
    /\ cached' = [digest |-> worker.data, records |-> Now]
    /\ worker' = [worker EXCEPT !.at = "publishing", !.data = Now]
    /\ UNCHANGED <<service, linkVars, handler, version, rows, mail, queued, running, faults,
                   historyVars>>

\* replace_source, with whatever was read.
Publish ==
    /\ worker.at = "publishing"
    /\ rows' = worker.data
    /\ worker' = [worker EXCEPT !.at = "finishing"]
    /\ UNCHANGED <<service, linkVars, handler, version, cached, mail, queued, running, faults,
                   historyVars>>

\* Mutant: a panic ends the worker's task.
FailForGood ==
    /\ worker.at \in {"reading", "asking", "getting", "publishing"}
    /\ faults < MaxFaults
    /\ faults' = faults + 1
    /\ worker' \in {[worker EXCEPT !.at = "finishing"], [worker EXCEPT !.at = "gone"]}
    /\ UNCHANGED <<service, linkVars, handler, version, rows, cached, mail, queued, running,
                   historyVars>>

\* The service or the database fails, or the provider panics: the rows stay.
Fail ==
    /\ worker.at \in {"reading", "asking", "getting", "publishing"}
    /\ faults < MaxFaults
    /\ faults' = faults + 1
    /\ worker' = [worker EXCEPT !.at = "finishing"]
    /\ UNCHANGED <<service, linkVars, handler, version, rows, cached, mail, queued, running,
                   historyVars>>

Finish ==
    /\ worker.at = "finishing"
    /\ running' = FALSE
    /\ worker' = Resting
    /\ UNCHANGED <<service, linkVars, handler, version, rows, cached, mail, queued, faults,
                   historyVars>>

------------------------------------------------------------------------------
(* The environment *)

ServiceMoves ==
    /\ version < MaxVersion
    /\ version' = version + 1
    /\ UNCHANGED <<service, linkVars, handler, rows, workerVars, faults, historyVars>>

\* Credential and rows are in the database; the rest was in memory.
Restart ==
    /\ faults < MaxFaults
    /\ faults' = faults + 1
    /\ pending' = None
    /\ handler' = [h \in Handlers |-> Idle]
    /\ cached' = None
    /\ mail' = FALSE /\ queued' = FALSE /\ running' = FALSE
    /\ worker' = Resting
    /\ UNCHANGED <<service, credential, issued, version, rows, historyVars>>

Working == Receive \/ Begin \/ ReadKey \/ Ask \/ Get \/ Publish \/ Fail \/ Finish

Next ==
    \/ \E h \in Handlers :
        \/ StartLink(h) \/ Offer(h)
        \/ PollLink(h) \/ PollWaits(h) \/ PollEnds(h) \/ PollLinked(h)
        \/ Login(h) \/ Minted(h) \/ UpdateSettings(h) \/ Save(h) \/ Refresh(h)
        \/ Clear(h) \/ ClearKey(h) \/ ClearRows(h)
        \/ Abandon(h)
    \/ Tick \/ Working
    \/ ServiceMoves \/ Restart

Spec == Init /\ [][Next]_vars

\* The timer ticks for ever, the worker runs on, and what it calls does not fail
\* for ever.
Fairness == WF_vars(Tick) /\ WF_vars(Working)

FairSpec == Spec /\ Fairness

------------------------------------------------------------------------------
(* What must hold *)

\* "A refresh that ran twice for one request" does not happen: the flags tell
\* exactly where the one refresh is that may be under way, and the channel has
\* room whenever they allow a request to send while it holds their lock.
Coalesced ==
    /\ queued <=> mail \/ worker.at = "received"
    /\ running <=> worker.at \notin {"idle", "received"}
    /\ ~(mail /\ worker.at # "idle")

\* No failure or panic leaves the worker "already scheduled" for ever.
WorkerRecovers ==
    (queued \/ running) ~> ~(queued \/ running)

\* Unlinking leaves nothing of the account: no offer through which a link could
\* still arrive, no credential, and no rows, unless a request or a refresh that
\* had been under way before brings them back.
UnlinkIsComplete ==
    unlinked = "clean" => pending = None /\ credential = None /\ rows = None

\* "It also clears anything a previous link left behind": rows that a refresh
\* brought back, or that a half-done unlinking left, disappear.
LeftoversGo ==
    (credential = None /\ rows # None) ~> (credential # None \/ rows = None)

\* The cache never hides a change: once the service has stopped changing, the
\* rows are its latest, as long as the account stays.
RowsCatchUp ==
    \A k \in Keys :
        (service # "romm" /\ credential = k /\ version = MaxVersion)
            ~> (credential # k \/ rows = <<k, MaxVersion>>)

\* A code that is still live does not "let a link arrive after the session it
\* belongs to has already been removed".
NoLateLink ==
    service = "stremio" /\ unlinked # "no" => credential = None
==============================================================================

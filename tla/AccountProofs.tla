---------------------------- MODULE AccountProofs ----------------------------
(***************************************************************************)
(* Proofs about linked accounts: the daemon's links and refresh workers    *)
(* (ServiceAccounts), and the launcher's RomM form and other settings      *)
(* cards (RommForm, SettingsCards).  For any number of requests, keys,     *)
(* changes and faults refreshes are coalesced, and unlinking leaves        *)
(* nothing of the account unless something under way before brings it      *)
(* back; for any number of requests and poll chains, answered in any       *)
(* order, a card that is working waits for an answer under way.            *)
(***************************************************************************)
EXTENDS ServiceAccounts, Integers, TLAPS

\* Zenon is the default; the leaves that need arithmetic or records name SMT.
USE Zenon

\* No request under way can produce an offer or a credential.
NoLinking == \A g \in Handlers : handler[g].at \notin {"offer", "poll", "mint", "save"}

\* A clean unlinking finds nothing to link again from its first step on, and
\* from its second nobody has the key; without a key the worker has no data.
Unlinking ==
    /\ unlinked = "clean" =>
         pending = None /\ NoLinking /\ credential = None /\ ~HoldsKey /\ rows = None
    /\ \A h \in Handlers :
         course[h] = "clean" /\ handler[h].at \in {"clearKey", "clearRows"} =>
             pending = None /\ NoLinking
    /\ \A h \in Handlers :
         course[h] = "clean" /\ handler[h].at = "clearRows" => credential = None /\ ~HoldsKey
    /\ worker.at = "publishing" /\ worker.key = None => worker.data = None
    /\ service = "romm" => rows = None /\ ~mail /\ worker.at = "idle"
    /\ \A h \in Handlers : handler[h].at = "refresh" => service = "tmdb"

\* The worker asks the service with a key, and reads after it has the digest.
Keyed ==
    /\ worker.at \in {"asking", "getting"} => worker.key # None
    /\ worker.at = "getting" => worker.data # None

AccountInv == TypeOK /\ Keyed /\ Coalesced /\ Unlinking

\* What the assumptions say of the numbers that are handed out.
LEMMA KeyFacts ==
    /\ None \notin Keys /\ None \notin Data
    /\ 0 \in 0..MaxKeys /\ 0 \in Versions /\ 0 \in 0..MaxFaults
    /\ \A n \in 0..MaxKeys : n < MaxKeys => n + 1 \in Keys /\ n + 1 \in 0..MaxKeys
    /\ \A n \in Versions : n < MaxVersion => n + 1 \in Versions
    /\ \A n \in 0..MaxFaults : n < MaxFaults => n + 1 \in 0..MaxFaults
<1>1. Keys \subseteq Nat /\ Versions \subseteq Nat
  BY SMT, AccountAssumption DEF Keys, Versions
<1>2. None \notin Keys /\ None \notin Data
  BY <1>1, AccountAssumption DEF Data
<1> QED
  BY SMT, <1>2, AccountAssumption DEF Keys, Versions

\* A handler that moves on keeps its type.
LEMMA GoesType ==
    ASSUME TypeOK, NEW h \in Handlers, NEW at \in Steps, NEW key \in Keys \cup {None},
           Goes(h, at, key)
    PROVE  handler' \in [Handlers -> [at : Steps, key : Keys \cup {None}]]
BY DEF TypeOK, Goes

\* TypeOK is inductive, once the worker is known to have a key where it needs one.
LEMMA AccountTypes ==
    ASSUME TypeOK, Keyed, [Next]_vars
    PROVE  TypeOK' /\ Keyed'
<1> USE KeyFacts DEF linkVars, workerVars, historyVars
<1>1. ASSUME NEW h \in Handlers,
             \/ StartLink(h) \/ Offer(h) \/ PollLink(h) \/ PollWaits(h) \/ PollEnds(h)
             \/ PollLinked(h) \/ Login(h) \/ Minted(h) \/ UpdateSettings(h) \/ Save(h)
             \/ Refresh(h) \/ Clear(h) \/ ClearKey(h) \/ ClearRows(h) \/ Abandon(h)
      PROVE  TypeOK' /\ Keyed'
  <2>1. handler[h].key \in Keys \cup {None} /\ pending \in Keys \cup {None}
    BY DEF TypeOK
  <2>2. issued < MaxKeys => issued + 1 \in Keys
    BY DEF TypeOK
  <2>3. handler' \in [Handlers -> [at : Steps, key : Keys \cup {None}]]
    <3>1. PICK at \in Steps, key \in Keys \cup {None} : Goes(h, at, key)
      BY <1>1, <2>1, <2>2
      DEF StartLink, Offer, PollLink, PollWaits, PollEnds, PollLinked, Login, Minted,
          UpdateSettings, Save, Refresh, Clear, ClearKey, ClearRows, Abandon, Steps
    <3> QED
      BY <3>1, GoesType
  <2>4. course' \in [Handlers -> Courses] /\ unlinked' \in Courses
    <3>1. CASE StartLink(h) \/ Login(h) \/ UpdateSettings(h)
      BY <3>1 DEF StartLink, Login, UpdateSettings, Wanted, Courses
    <3>2. CASE Clear(h)
      BY <3>2 DEF TypeOK, Clear, Starting, Courses
    <3>3. CASE ClearKey(h)
      BY <3>3 DEF TypeOK, ClearKey, Finished, Courses
    <3>4. CASE ClearRows(h)
      BY <3>4 DEF TypeOK, ClearRows, Finished
    <3>5. CASE \/ Offer(h) \/ PollLink(h) \/ PollWaits(h) \/ PollEnds(h) \/ PollLinked(h)
               \/ Minted(h) \/ Save(h) \/ Refresh(h) \/ Abandon(h)
      <4>1. UNCHANGED <<course, unlinked>>
        BY <3>5
        DEF Offer, PollLink, PollWaits, PollEnds, PollLinked, Minted, Save, Refresh, Abandon
      <4> QED
        BY <4>1 DEF TypeOK
    <3> QED
      BY <1>1, <3>1, <3>2, <3>3, <3>4, <3>5
  <2>5. pending' \in Keys \cup {None} /\ credential' \in Keys \cup {None} /\ issued' \in 0..MaxKeys
    BY <1>1, <2>1
    DEF TypeOK, StartLink, Offer, PollLink, PollWaits, PollEnds, PollLinked, Login, Minted,
        UpdateSettings, Save, Refresh, Clear, ClearKey, ClearRows, Abandon
  <2>6. mail' \in BOOLEAN /\ queued' \in BOOLEAN /\ rows' \in Data \cup {None}
    BY <1>1
    DEF TypeOK, StartLink, Offer, PollLink, PollWaits, PollEnds, PollLinked, Login, Minted,
        UpdateSettings, Save, Refresh, Clear, ClearKey, ClearRows, Abandon, Enqueue
  <2>7. UNCHANGED <<service, version, cached, running, worker, faults>>
    BY <1>1
    DEF StartLink, Offer, PollLink, PollWaits, PollEnds, PollLinked, Login, Minted,
        UpdateSettings, Save, Refresh, Clear, ClearKey, ClearRows, Abandon
  <2> QED
    BY <2>3, <2>4, <2>5, <2>6, <2>7 DEF TypeOK, Keyed
<1>2. CASE Tick
  <2>1. UNCHANGED <<service, pending, credential, issued, handler, version, rows, cached, running,
                    worker, faults, course, unlinked>>
    BY <1>2 DEF Tick
  <2>2. mail' \in BOOLEAN /\ queued' \in BOOLEAN
    <3>1. CASE running \/ queued
      BY <1>2, <3>1 DEF TypeOK, Tick, Enqueue
    <3>2. CASE ~(running \/ queued)
      BY <1>2, <3>2 DEF Tick, Enqueue
    <3> QED
      BY <3>1, <3>2
  <2> QED
    BY <2>1, <2>2 DEF TypeOK, Keyed
<1>3. CASE Working
  <2>1. worker.key # None => Now \in Data
    BY DEF TypeOK, Now, Data
  <2>2. /\ worker' \in [at : WorkerSteps, key : Keys \cup {None}, data : Data \cup {None}]
        /\ Keyed'
    <3>1. CASE Receive \/ Begin \/ Publish \/ Fail \/ Finish
      BY SMT, <3>1 DEF TypeOK, Keyed, Receive, Begin, Publish, Fail, Finish, Resting, WorkerSteps
    <3>2. CASE ReadKey
      BY <3>2 DEF TypeOK, Keyed, ReadKey, WorkerSteps
    <3>3. CASE Ask
      <4>1. cached # None => cached.records \in Data
        BY DEF TypeOK
      <4> QED
        BY <3>3, <2>1, <4>1 DEF TypeOK, Keyed, Ask, WorkerSteps
    <3>4. CASE Get
      BY <3>4, <2>1 DEF TypeOK, Keyed, Get, WorkerSteps
    <3> QED
      BY <1>3, <3>1, <3>2, <3>3, <3>4 DEF Working
  <2>3. cached' \in [digest : Data, records : Data] \cup {None}
    <3>1. CASE Get
      <4>1. worker.data \in Data
        BY <3>1 DEF Get, Keyed, TypeOK
      <4> QED
        BY <3>1, <2>1, <4>1 DEF Get, Keyed
    <3>2. CASE ~Get
      BY <1>3, <3>2 DEF Working, TypeOK, Receive, Begin, ReadKey, Ask, Publish, Fail, Finish
    <3> QED
      BY <3>1, <3>2
  <2>4. rows' \in Data \cup {None}
    BY <1>3 DEF Working, TypeOK, Receive, Begin, ReadKey, Ask, Get, Publish, Fail, Finish
  <2>5. mail' \in BOOLEAN /\ queued' \in BOOLEAN /\ running' \in BOOLEAN
    BY <1>3 DEF Working, TypeOK, Receive, Begin, ReadKey, Ask, Get, Publish, Fail, Finish
  <2>6. faults' \in 0..MaxFaults
    BY <1>3 DEF Working, TypeOK, Receive, Begin, ReadKey, Ask, Get, Publish, Fail, Finish
  <2>7. UNCHANGED <<service, pending, credential, issued, handler, version, course, unlinked>>
    BY <1>3 DEF Working, Receive, Begin, ReadKey, Ask, Get, Publish, Fail, Finish
  <2> QED
    BY <2>2, <2>3, <2>4, <2>5, <2>6, <2>7 DEF TypeOK
<1>4. CASE ServiceMoves
  <2>1. UNCHANGED <<service, pending, credential, issued, handler, rows, cached, mail, queued,
                    running, worker, faults, course, unlinked>>
    BY <1>4 DEF ServiceMoves
  <2>2. version' \in Versions
    BY <1>4 DEF TypeOK, ServiceMoves
  <2> QED
    BY SMT, <2>1, <2>2 DEF TypeOK, Keyed
<1>5. CASE Restart
  <2>1. /\ handler' \in [Handlers -> [at : Steps, key : Keys \cup {None}]]
        /\ worker' \in [at : WorkerSteps, key : Keys \cup {None}, data : Data \cup {None}]
    BY <1>5 DEF Restart, Idle, Resting, Steps, WorkerSteps
  <2>2. Keyed'
    BY <1>5 DEF Restart, Resting, Keyed
  <2> QED
    BY <1>5, <2>1, <2>2 DEF TypeOK, Restart
<1>6. CASE UNCHANGED vars
  BY SMT, <1>6 DEF TypeOK, Keyed, vars
<1> QED
  BY <1>1, <1>2, <1>3, <1>4, <1>5, <1>6 DEF Next

\* Coalesced is inductive: a request sends only when no refresh is under way, and
\* the worker moves the flags with itself.
LEMMA CoalescedStep ==
    ASSUME TypeOK, Coalesced, [Next]_vars
    PROVE  Coalesced'
<1> USE DEF linkVars, workerVars, historyVars, Coalesced
<1>1. CASE UNCHANGED <<mail, queued, running, worker>>
  BY <1>1
<1>2. CASE Tick \/ \E h \in Handlers : Refresh(h)
  <2>1. UNCHANGED <<running, worker>>
    BY <1>2 DEF Tick, Refresh
  <2>2. CASE running \/ queued
    BY <1>1, <1>2, <2>1, <2>2 DEF Tick, Refresh, Enqueue
  <2>3. CASE ~(running \/ queued)
    <3>1. mail' /\ queued'
      BY <1>2, <2>3 DEF Tick, Refresh, Enqueue
    <3> QED
      BY <2>1, <2>3, <3>1
  <2> QED
    BY <2>2, <2>3
<1>3. CASE Receive
  BY <1>3 DEF TypeOK, Receive
<1>4. CASE Begin
  BY <1>4 DEF TypeOK, Begin
<1>5. CASE ReadKey \/ Ask \/ Get \/ Publish \/ Fail
  <2>1. UNCHANGED <<mail, queued, running>>
    BY <1>5 DEF ReadKey, Ask, Get, Publish, Fail
  <2>2. worker.at \notin {"idle", "received"}
    BY <1>5 DEF ReadKey, Ask, Get, Publish, Fail
  <2>3. worker'.at \notin {"idle", "received"}
    <3>1. CASE ReadKey
      BY <3>1 DEF ReadKey
    <3>2. CASE Ask
      BY <3>2 DEF TypeOK, Ask
    <3>3. CASE Get \/ Publish \/ Fail
      BY <3>3 DEF TypeOK, Get, Publish, Fail
    <3> QED
      BY <1>5, <3>1, <3>2, <3>3
  <2> QED
    BY <2>1, <2>2, <2>3
<1>6. CASE Finish
  BY <1>6 DEF TypeOK, Finish, Resting
<1>7. CASE Restart
  BY <1>7 DEF Restart, Resting
<1>8. ASSUME NEW h \in Handlers,
             \/ StartLink(h) \/ Offer(h) \/ PollLink(h) \/ PollWaits(h) \/ PollEnds(h)
             \/ PollLinked(h) \/ Login(h) \/ Minted(h) \/ UpdateSettings(h) \/ Save(h)
             \/ Clear(h) \/ ClearKey(h) \/ ClearRows(h) \/ Abandon(h)
      PROVE  Coalesced'
  <2>1. UNCHANGED <<mail, queued, running, worker>>
    BY <1>8
    DEF StartLink, Offer, PollLink, PollWaits, PollEnds, PollLinked, Login, Minted,
        UpdateSettings, Save, Clear, ClearKey, ClearRows, Abandon
  <2> QED
    BY <1>1, <2>1
<1>9. CASE ServiceMoves \/ UNCHANGED vars
  BY <1>1, <1>9 DEF ServiceMoves, vars
<1> QED
  BY <1>2, <1>3, <1>4, <1>5, <1>6, <1>7, <1>8, <1>9 DEF Next, Working

\* Unlinking is inductive: only a request that had been under way before can put
\* an offer or a key back, and only a key that had been read before, rows.
LEMMA UnlinkingStep ==
    ASSUME TypeOK, Keyed, Coalesced, Unlinking, [Next]_vars
    PROVE  Unlinking'
<1> USE DEF linkVars, workerVars, historyVars
<1>1. ASSUME NEW h \in Handlers, StartLink(h) \/ Login(h) \/ UpdateSettings(h)
      PROVE  Unlinking'
  <2>1. unlinked' = "no" /\ \A g \in Handlers : course'[g] = "no"
    BY <1>1 DEF StartLink, Login, UpdateSettings, Wanted
  <2>2. UNCHANGED <<service, rows, mail, worker>>
    BY <1>1 DEF StartLink, Login, UpdateSettings
  <2>3. \A g \in Handlers : handler'[g].at = "refresh" => handler[g].at = "refresh"
    <3>1. PICK at \in {"offer", "mint", "save"} : \E key : Goes(h, at, key)
      BY <1>1 DEF StartLink, Login, UpdateSettings
    <3> QED
      BY SMT, <3>1 DEF Goes, TypeOK
  <2> QED
    BY <2>1, <2>2, <2>3 DEF Unlinking
<1>2. ASSUME NEW h \in Handlers,
             \/ Offer(h) \/ PollLink(h) \/ PollWaits(h) \/ PollEnds(h) \/ PollLinked(h)
             \/ Minted(h) \/ Save(h)
      PROVE  Unlinking'
  <2>1. ~(pending = None /\ NoLinking)
    BY <1>2 DEF NoLinking, Offer, PollLink, PollWaits, PollEnds, PollLinked, Minted, Save
  <2>2. /\ unlinked # "clean"
        /\ \A g \in Handlers : ~(course[g] = "clean" /\ handler[g].at \in {"clearKey", "clearRows"})
    BY <2>1 DEF Unlinking
  <2>3. UNCHANGED <<service, rows, mail, worker, course, unlinked>>
    BY <1>2 DEF Offer, PollLink, PollWaits, PollEnds, PollLinked, Minted, Save
  <2>4. PICK at \in {"idle", "poll", "save", "refresh"} :
           (at = "refresh" => service = "tmdb") /\ \E key : Goes(h, at, key)
    BY <1>2 DEF Offer, PollLink, PollWaits, PollEnds, PollLinked, Minted, Save
  <2>5. \A g \in Handlers : handler'[g].at = IF g = h THEN at ELSE handler[g].at
    <3>1. PICK key : handler' = [handler EXCEPT ![h] = [at |-> at, key |-> key]]
      BY <2>4 DEF Goes
    <3>2. ASSUME NEW g \in Handlers PROVE handler'[g].at = IF g = h THEN at ELSE handler[g].at
      BY <3>1 DEF TypeOK
    <3> QED
      BY <3>2
  <2>6. \A g \in Handlers :
           handler'[g].at \in {"clearKey", "clearRows"} => handler'[g].at = handler[g].at
    BY <2>5
  <2>7. \A g \in Handlers :
           handler'[g].at = "refresh" => handler[g].at = "refresh" \/ service = "tmdb"
    BY <2>4, <2>5
  <2> QED
    BY <2>2, <2>3, <2>6, <2>7 DEF Unlinking
<1>3. ASSUME NEW h \in Handlers, Refresh(h) \/ Abandon(h)
      PROVE  Unlinking'
  <2>1. handler' = [handler EXCEPT ![h] = [at |-> "idle", key |-> None]]
    BY <1>3 DEF Refresh, Abandon, Goes
  <2>2. UNCHANGED <<service, pending, credential, rows, worker, course, unlinked>>
    BY <1>3 DEF Refresh, Abandon
  <2>3. mail' = mail \/ service = "tmdb"
    BY <1>3 DEF Refresh, Abandon, Unlinking
  <2>4. NoLinking => NoLinking'
    BY <2>1 DEF NoLinking, TypeOK
  <2>5. \A g \in Handlers : handler'[g].at # "idle" => handler'[g].at = handler[g].at
    BY <2>1 DEF TypeOK
  <2>6. service = "romm" => ~mail'
    BY <2>3 DEF Unlinking
  <2>7. HoldsKey' <=> HoldsKey
    BY <2>2 DEF HoldsKey
  <2> QED
    BY <2>2, <2>4, <2>5, <2>6, <2>7 DEF Unlinking
<1>4. ASSUME NEW h \in Handlers, Clear(h)
      PROVE  Unlinking'
  <2>1. handler' = [handler EXCEPT ![h] = [at |-> "clearKey", key |-> None]]
    BY <1>4 DEF Clear, Goes
  <2>2. UNCHANGED <<service, credential, rows, mail, worker, unlinked>> /\ pending' = None
    BY <1>4 DEF Clear
  <2>3. NoLinking => NoLinking'
    BY <2>1 DEF NoLinking, TypeOK
  <2>4. course'[h] = "clean" => NoLinking
    BY <1>4 DEF Clear, Starting, TypeOK, NoLinking
  <2>5. \A g \in Handlers \ {h} : course'[g] = course[g] /\ handler'[g] = handler[g]
    BY <1>4, <2>1 DEF Clear, Starting, TypeOK
  <2>6. handler'[h].at = "clearKey"
    BY <2>1 DEF TypeOK
  <2>7. HoldsKey' <=> HoldsKey
    BY <2>2 DEF HoldsKey
  <2>8. unlinked' = "clean" =>
           pending' = None /\ NoLinking' /\ credential' = None /\ ~HoldsKey' /\ rows' = None
    BY <2>2, <2>3, <2>7 DEF Unlinking
  <2>9. ASSUME NEW g \in Handlers, course'[g] = "clean",
               handler'[g].at \in {"clearKey", "clearRows"}
        PROVE  pending' = None /\ NoLinking'
    BY <2>2, <2>3, <2>4, <2>5, <2>9 DEF Unlinking
  <2>10. ASSUME NEW g \in Handlers, course'[g] = "clean", handler'[g].at = "clearRows"
         PROVE  credential' = None /\ ~HoldsKey'
    BY <2>2, <2>5, <2>6, <2>7, <2>10 DEF Unlinking
  <2>11. \A g \in Handlers : handler'[g].at = "refresh" => service' = "tmdb"
    BY <2>2, <2>5, <2>6 DEF Unlinking
  <2> QED
    BY <2>2, <2>8, <2>9, <2>10, <2>11 DEF Unlinking
<1>5. ASSUME NEW h \in Handlers, ClearKey(h)
      PROVE  Unlinking'
  <2>1. /\ UNCHANGED <<service, pending, rows, mail, worker>>
        /\ credential' = None /\ handler[h].at = "clearKey"
    BY <1>5 DEF ClearKey
  <2>2. handler'[h].at \in {"idle", "clearRows"}
    <3>1. PICK at \in {"idle", "clearRows"} : Goes(h, at, None)
      BY <1>5 DEF ClearKey
    <3> QED
      BY <3>1 DEF Goes, TypeOK
  <2>3. \A g \in Handlers \ {h} : course'[g] = course[g] /\ handler'[g] = handler[g]
    BY <1>5 DEF ClearKey, Goes, TypeOK
  <2>4. NoLinking => NoLinking'
    BY <2>2, <2>3 DEF NoLinking
  <2>5. HoldsKey' <=> HoldsKey
    BY <2>1 DEF HoldsKey
  <2>6. course'[h] = "clean" /\ handler'[h].at = "clearRows" =>
           course[h] = "clean" /\ ~HoldsKey
    <3>1. CASE service = "romm"
      <4>1. Goes(h, "idle", None)
        BY <1>5, <3>1 DEF ClearKey
      <4> QED
        BY <4>1 DEF Goes, TypeOK
    <3>2. CASE service # "romm"
      <4>1. course' = [course EXCEPT ![h] = IF HoldsKey /\ @ = "clean" THEN "raced" ELSE @]
        BY <1>5, <3>2 DEF ClearKey
      <4> QED
        BY <4>1 DEF TypeOK
    <3> QED
      BY <3>1, <3>2
  <2>7. course[h] = "clean" => pending = None /\ NoLinking
    BY <2>1 DEF Unlinking
  <2>8. ASSUME unlinked' = "clean"
        PROVE  pending' = None /\ NoLinking' /\ credential' = None /\ ~HoldsKey' /\ rows' = None
    <3>1. CASE service = "romm"
      <4>1. course[h] = "clean"
        BY <1>5, <2>8, <3>1 DEF ClearKey, Finished
      <4>2. ~HoldsKey /\ rows = None
        BY <3>1 DEF Unlinking, HoldsKey
      <4> QED
        BY <2>1, <2>4, <2>5, <2>7, <4>1, <4>2
    <3>2. CASE service # "romm"
      <4>1. unlinked = "clean"
        BY <1>5, <2>8, <3>2 DEF ClearKey
      <4> QED
        BY <2>1, <2>4, <2>5, <4>1 DEF Unlinking
    <3> QED
      BY <3>1, <3>2
  <2>9. ASSUME NEW g \in Handlers, course'[g] = "clean",
               handler'[g].at \in {"clearKey", "clearRows"}
        PROVE  pending' = None /\ NoLinking'
    <3>1. CASE g = h
      BY <2>1, <2>2, <2>4, <2>6, <2>7, <2>9, <3>1
    <3>2. CASE g # h
      BY <2>1, <2>3, <2>4, <2>9, <3>2 DEF Unlinking
    <3> QED
      BY <3>1, <3>2
  <2>10. ASSUME NEW g \in Handlers, course'[g] = "clean", handler'[g].at = "clearRows"
         PROVE  credential' = None /\ ~HoldsKey'
    <3>1. CASE g = h
      BY <2>1, <2>5, <2>6, <2>10, <3>1
    <3>2. CASE g # h
      BY <2>1, <2>3, <2>5, <2>10, <3>2 DEF Unlinking
    <3> QED
      BY <3>1, <3>2
  <2>11. \A g \in Handlers : handler'[g].at = "refresh" => service' = "tmdb"
    BY <2>1, <2>2, <2>3 DEF Unlinking
  <2> QED
    BY <2>1, <2>8, <2>9, <2>10, <2>11 DEF Unlinking
<1>6. ASSUME NEW h \in Handlers, ClearRows(h)
      PROVE  Unlinking'
  <2>1. /\ UNCHANGED <<service, pending, credential, mail, worker, course>>
        /\ rows' = None /\ handler[h].at = "clearRows" /\ unlinked' = course[h]
    BY <1>6 DEF ClearRows, Finished
  <2>2. handler' = [handler EXCEPT ![h] = [at |-> "idle", key |-> None]]
    BY <1>6 DEF ClearRows, Goes
  <2>3. \A g \in Handlers : handler'[g].at # "idle" => handler'[g].at = handler[g].at
    BY <2>2 DEF TypeOK
  <2>4. NoLinking => NoLinking'
    BY <2>3 DEF NoLinking
  <2>5. HoldsKey' <=> HoldsKey
    BY <2>1 DEF HoldsKey
  <2>6. unlinked' = "clean" =>
           pending' = None /\ NoLinking' /\ credential' = None /\ ~HoldsKey' /\ rows' = None
    BY <2>1, <2>4, <2>5 DEF Unlinking
  <2> QED
    BY <2>1, <2>3, <2>4, <2>5, <2>6 DEF Unlinking
<1>7. CASE Tick
  <2>1. UNCHANGED <<service, pending, credential, handler, rows, worker, course, unlinked>>
    BY <1>7 DEF Tick
  <2>2. service # "romm"
    BY <1>7 DEF Tick
  <2> QED
    BY <2>1, <2>2 DEF Unlinking, NoLinking, HoldsKey
<1>8. CASE Working
  <2>1. UNCHANGED <<service, pending, credential, handler, course, unlinked>>
    BY <1>8 DEF Working, Receive, Begin, ReadKey, Ask, Get, Publish, Fail, Finish
  <2>2. service # "romm"
    BY <1>8
    DEF Unlinking, Working, Receive, Begin, ReadKey, Ask, Get, Publish, Fail, Finish
  <2>3. HoldsKey' => HoldsKey \/ credential # None
    <3>1. CASE ReadKey
      BY <3>1 DEF ReadKey, HoldsKey, TypeOK
    <3>2. CASE Ask \/ Get
      BY <3>2 DEF Ask, Get, HoldsKey, TypeOK
    <3>3. CASE Receive \/ Begin \/ Publish \/ Fail \/ Finish
      BY SMT, <3>3 DEF Receive, Begin, Publish, Fail, Finish, Resting, HoldsKey, TypeOK
    <3> QED
      BY <1>8, <3>1, <3>2, <3>3 DEF Working
  <2>4. ~HoldsKey /\ rows = None => rows' = None
    <3>1. CASE Publish
      BY <3>1 DEF Publish, HoldsKey, Unlinking
    <3>2. CASE ~Publish
      BY <1>8, <3>2 DEF Working, Receive, Begin, ReadKey, Ask, Get, Fail, Finish
    <3> QED
      BY <3>1, <3>2
  <2>5. worker'.at = "publishing" /\ worker'.key = None => worker'.data = None
    <3>1. CASE ReadKey
      BY <3>1 DEF ReadKey
    <3>2. CASE Ask \/ Get
      BY <3>2 DEF Ask, Get, Keyed, TypeOK
    <3>3. CASE Receive \/ Begin \/ Publish \/ Fail \/ Finish
      BY SMT, <3>3 DEF Receive, Begin, Publish, Fail, Finish, Resting, TypeOK
    <3> QED
      BY <1>8, <3>1, <3>2, <3>3 DEF Working
  <2>6. NoLinking' <=> NoLinking
    BY <2>1 DEF NoLinking
  <2> QED
    BY <2>1, <2>2, <2>3, <2>4, <2>5, <2>6 DEF Unlinking
<1>9. CASE Restart
  <2>1. /\ UNCHANGED <<service, credential, rows, unlinked>>
        /\ pending' = None /\ ~mail' /\ worker'.at = "idle"
    BY <1>9 DEF Restart, Resting
  <2>2. \A h \in Handlers : handler'[h].at = "idle"
    BY <1>9 DEF Restart, Idle
  <2>3. NoLinking' /\ ~HoldsKey'
    BY <2>1, <2>2 DEF NoLinking, HoldsKey
  <2> QED
    BY <2>1, <2>2, <2>3 DEF Unlinking
<1>10. CASE ServiceMoves \/ UNCHANGED vars
  <2>1. UNCHANGED <<service, pending, credential, handler, rows, mail, worker, course, unlinked>>
    BY <1>10 DEF ServiceMoves, vars
  <2> QED
    BY <2>1 DEF Unlinking, NoLinking, HoldsKey
<1> QED
  BY <1>1, <1>2, <1>3, <1>4, <1>5, <1>6, <1>7, <1>8, <1>9, <1>10 DEF Next

------------------------------------------------------------------------------

\* The inductive invariant holds in every reachable state.
LEMMA AccountInduction == Spec => []AccountInv
<1>1. Init => AccountInv
  <2> SUFFICES ASSUME Init PROVE AccountInv
    OBVIOUS
  <2>1. TypeOK
    BY KeyFacts DEF Init, TypeOK, Idle, Resting, Steps, WorkerSteps, Courses
  <2>2. Keyed /\ Coalesced
    BY DEF Init, Keyed, Coalesced, Resting
  <2>3. Unlinking
    BY DEF Init, Unlinking, Idle, Resting
  <2> QED
    BY <2>1, <2>2, <2>3 DEF AccountInv
<1>2. AccountInv /\ [Next]_vars => AccountInv'
  BY AccountTypes, CoalescedStep, UnlinkingStep DEF AccountInv
<1> QED
  BY <1>1, <1>2, PTL DEF Spec

\* Every variable of the accounts and the worker keeps its type.
THEOREM TypeCorrect == Spec => []TypeOK
<1>1. AccountInv => TypeOK
  BY DEF AccountInv
<1> QED
  BY AccountInduction, <1>1, PTL

\* Whatever requests, failures, panics and restarts come, one refresh at a time is
\* under way, the flags of RefreshState say where, and enqueue never meets a full
\* channel while it holds their lock.
THEOREM RefreshesCoalesce == Spec => []Coalesced
<1>1. AccountInv => Coalesced
  BY DEF AccountInv
<1> QED
  BY AccountInduction, <1>1, PTL

\* For any number of concurrent requests, an unlinking that nothing raced leaves
\* neither offer, credential nor rows, until the user wants an account again.
THEOREM UnlinkingIsComplete == Spec => []UnlinkIsComplete
<1>1. AccountInv => UnlinkIsComplete
  BY DEF AccountInv, Unlinking, UnlinkIsComplete
<1> QED
  BY AccountInduction, <1>1, PTL

------------------------------------------------------------------------------
(* The launcher's RomM form *)

CONSTANTS MaxJobs, MaxChains, MaxReads

VARIABLES connection, url, formCode, polling, busy, signIn, formCaret, jobs, polls

Romm == INSTANCE RommForm WITH pending <- formCode, dialog <- signIn, caret <- formCaret

\* Every part of the form's state keeps its type.
THEOREM FormIsTyped == Romm!Spec => []Romm!TypeOK
<1>1. Romm!Init => Romm!TypeOK
  <2>1. Romm!Init => jobs \in [Romm!Kinds -> Nat] /\ polls \in Nat
    BY SMT DEF Romm!Init
  <2>2. Romm!Init => /\ connection \in BOOLEAN /\ url \in BOOLEAN
                /\ formCode \in BOOLEAN /\ polling \in BOOLEAN /\ busy \in BOOLEAN
    BY DEF Romm!Init
  <2>3. Romm!Init => signIn \in {"none", "empty", "filled"} /\ formCaret \in {"none",
               "Url"} \cup Romm!Credentials
    BY DEF Romm!Init
  <2> QED
    BY <2>1, <2>2, <2>3 DEF Romm!TypeOK
<1>2. Romm!TypeOK /\ [Romm!Next]_(Romm!vars) => Romm!TypeOK'
  <2> SUFFICES ASSUME Romm!TypeOK, [Romm!Next]_(Romm!vars) PROVE Romm!TypeOK'
    OBVIOUS
  <2> USE DEF Romm!TypeOK, Romm!Credentials
  <2>1. ASSUME NEW kind \in Romm!Kinds, Romm!Ask(kind) \/ Romm!Answered(kind)
        PROVE jobs' \in [Romm!Kinds -> Nat]
    BY SMT, <2>1 DEF Romm!Ask, Romm!Answered
  <2>2. CASE Romm!RefreshPressed \/ Romm!ConnectPressed \/ Romm!RemovePressed
    BY <2>1, <2>2
       DEF Romm!RefreshPressed, Romm!ConnectPressed, Romm!RemovePressed, Romm!Kinds, Romm!Ask
  <2>3. CASE Romm!SignInPressed
    BY <2>1, <2>3 DEF Romm!SignInPressed, Romm!Kinds, Romm!Ask
  <2>4. CASE Romm!UrlChanged \/ Romm!SignInOpened \/ Romm!SignInClosed
     \/ Romm!CredentialsTyped \/ Romm!UsernameSubmitted
    BY <2>4
       DEF Romm!UrlChanged, Romm!SignInOpened, Romm!SignInClosed, Romm!CredentialsTyped,
           Romm!UsernameSubmitted
  <2>5. CASE Romm!CaretGivenUp \/ \E f \in {"Url"} \cup Romm!Credentials : Romm!FieldFocused(f)
    BY <2>5 DEF Romm!CaretGivenUp, Romm!FieldFocused
  <2>6. CASE Romm!LoadAnswered
    <3>1. jobs' \in [Romm!Kinds -> Nat]
      BY <2>1, <2>6 DEF Romm!LoadAnswered, Romm!Kinds
    <3>2. connection' \in BOOLEAN /\ url' \in BOOLEAN /\ busy' \in BOOLEAN
      BY <2>6 DEF Romm!LoadAnswered, Romm!Loaded, Romm!Failed
    <3> QED
      BY <2>6, <3>1, <3>2 DEF Romm!LoadAnswered
  <2>7. CASE Romm!LinkStarted
    <3>1. jobs' \in [Romm!Kinds -> Nat]
      BY <2>1, <2>7 DEF Romm!LinkStarted, Romm!Kinds
    <3>2. polls' \in Nat
      BY SMT, <2>7 DEF Romm!LinkStarted
    <3>3. formCode' \in BOOLEAN /\ polling' \in BOOLEAN
      BY <2>7, Zenon DEF Romm!LinkStarted
    <3> QED
      BY <2>7, <3>1, <3>2, <3>3 DEF Romm!LinkStarted
  <2>8. CASE Romm!LinkPolled
    <3>1. polls' \in Nat
      BY SMT, <2>8 DEF Romm!LinkPolled
    <3>2. connection' \in BOOLEAN /\ url' \in BOOLEAN /\ busy' \in BOOLEAN
      BY <2>8, Zenon DEF Romm!LinkPolled, Romm!Loaded
    <3> QED
      BY <2>8, <3>1, <3>2 DEF Romm!LinkPolled
  <2>9. CASE Romm!SignedIn
    <3>1. jobs' \in [Romm!Kinds -> Nat]
      BY <2>1, <2>9 DEF Romm!SignedIn, Romm!Kinds
    <3>2. /\ connection' \in BOOLEAN /\ url' \in BOOLEAN /\ busy' \in BOOLEAN
          /\ formCode' \in BOOLEAN
      BY <2>9, Zenon DEF Romm!SignedIn, Romm!Loaded, Romm!Failed
    <3>3. signIn' \in {"none", "empty", "filled"} /\ formCaret' \in {"none",
                 "Url"} \cup Romm!Credentials
      BY <2>9 DEF Romm!SignedIn
    <3> QED
      BY <2>9, <3>1, <3>2, <3>3 DEF Romm!SignedIn
  <2>10. CASE Romm!Removed
    BY <2>1, <2>10 DEF Romm!Removed, Romm!Loaded, Romm!Failed, Romm!Kinds
  <2>11. CASE UNCHANGED Romm!vars
    BY <2>11 DEF Romm!vars, Romm!formVars
  <2> QED
    BY <2>2, <2>3, <2>4, <2>5, <2>6, <2>7, <2>8, <2>9, <2>10, <2>11 DEF Romm!Next
<1> QED
  BY <1>1, <1>2, PTL DEF Romm!Spec

\* For any number of requests out, a form that says it is working has one of them
\* to wait for: only an answer clears busy, and every answer does.
THEOREM WorkingFormIsAnswered == Romm!Spec => []Romm!BusyIsAnswered
<1>1. Romm!Init => Romm!BusyIsAnswered
  BY DEF Romm!Init, Romm!BusyIsAnswered
<1>2. Romm!TypeOK /\ Romm!BusyIsAnswered /\ [Romm!Next]_(Romm!vars) => Romm!BusyIsAnswered'
  <2> SUFFICES ASSUME Romm!TypeOK, Romm!BusyIsAnswered, [Romm!Next]_(Romm!vars)
        PROVE Romm!BusyIsAnswered'
    OBVIOUS
  <2>1. ASSUME NEW kind \in Romm!Kinds, Romm!Ask(kind) PROVE Romm!BusyIsAnswered'
    <3>1. jobs'[kind] = jobs[kind] + 1 /\ jobs[kind] \in Nat
      BY <2>1 DEF Romm!Ask, Romm!TypeOK
    <3> QED
      BY SMT, <3>1 DEF Romm!BusyIsAnswered
  <2>2. CASE Romm!RefreshPressed \/ Romm!ConnectPressed \/ Romm!RemovePressed
     \/ Romm!SignInPressed
    BY <2>1, <2>2
       DEF Romm!RefreshPressed, Romm!ConnectPressed, Romm!RemovePressed, Romm!SignInPressed,
           Romm!Kinds
  <2>3. CASE busy' = FALSE
    BY <2>3 DEF Romm!BusyIsAnswered
  <2>4. CASE Romm!LoadAnswered \/ Romm!LinkStarted \/ Romm!SignedIn \/ Romm!Removed
    <3>1. busy' = FALSE
      BY <2>4
         DEF Romm!LoadAnswered, Romm!LinkStarted, Romm!SignedIn, Romm!Removed, Romm!Loaded,
             Romm!Failed
    <3> QED
      BY <2>3, <3>1
  <2>5. CASE Romm!LinkPolled
    <3>1. busy' = FALSE \/ busy' = busy
      BY <2>5 DEF Romm!LinkPolled, Romm!Loaded
    <3>2. jobs' = jobs
      BY <2>5 DEF Romm!LinkPolled
    <3> QED
      BY <2>3, <3>1, <3>2 DEF Romm!BusyIsAnswered
  <2>6. CASE UNCHANGED <<busy, jobs>>
    BY <2>6 DEF Romm!BusyIsAnswered
  <2> QED
    BY <2>2, <2>4, <2>5, <2>6
       DEF Romm!Next, Romm!UrlChanged, Romm!SignInOpened, Romm!SignInClosed,
           Romm!CredentialsTyped, Romm!UsernameSubmitted, Romm!FieldFocused, Romm!CaretGivenUp,
           Romm!vars, Romm!formVars
<1> QED
  BY <1>1, <1>2, FormIsTyped, PTL DEF Romm!Spec

\* For any number of poll chains, a code on screen is polled for and a form its
\* chain has locked has a chain, although the chains share one flag.
THEOREM CodesAreWatched == Romm!Spec => []Romm!CodeIsWatched
<1>1. Romm!Init => Romm!CodeIsWatched
  BY DEF Romm!Init, Romm!CodeIsWatched
<1>2. Romm!TypeOK /\ Romm!CodeIsWatched /\ [Romm!Next]_(Romm!vars) => Romm!CodeIsWatched'
  <2> SUFFICES ASSUME Romm!TypeOK, Romm!CodeIsWatched, [Romm!Next]_(Romm!vars)
        PROVE Romm!CodeIsWatched'
    OBVIOUS
  <2>1. CASE Romm!LinkStarted
    <3>1. \/ polls' = polls + 1 /\ polling' = TRUE
          \/ UNCHANGED <<formCode, polling, polls>>
      BY <2>1 DEF Romm!LinkStarted
    <3> QED
      BY SMT, <3>1 DEF Romm!CodeIsWatched, Romm!TypeOK
  <2>2. CASE Romm!LinkPolled
    BY <2>2 DEF Romm!LinkPolled, Romm!CodeIsWatched
  <2>3. CASE Romm!SignedIn \/ Romm!Removed
    <3>1. (formCode' = FALSE \/ formCode' = formCode) /\ UNCHANGED <<polling, polls>>
      BY <2>3 DEF Romm!SignedIn, Romm!Removed
    <3> QED
      BY SMT, <3>1 DEF Romm!CodeIsWatched
  <2>4. CASE UNCHANGED <<formCode, polling, polls>>
    BY <2>4 DEF Romm!CodeIsWatched
  <2> QED
    BY <2>1, <2>2, <2>3, <2>4
       DEF Romm!Next, Romm!RefreshPressed, Romm!UrlChanged, Romm!ConnectPressed,
           Romm!RemovePressed, Romm!SignInOpened, Romm!SignInClosed, Romm!CredentialsTyped,
           Romm!SignInPressed, Romm!UsernameSubmitted, Romm!FieldFocused, Romm!CaretGivenUp,
           Romm!LoadAnswered, Romm!vars, Romm!formVars
<1> QED
  BY <1>1, <1>2, FormIsTyped, PTL DEF Romm!Spec

\* The caret is never left in a dialog that is gone.
THEOREM CaretStaysDrawn == Romm!Spec => []Romm!CaretIsDrawn
<1>1. Romm!Init => Romm!CaretIsDrawn
  BY DEF Romm!Init, Romm!CaretIsDrawn, Romm!Credentials
<1>2. Romm!CaretIsDrawn /\ [Romm!Next]_(Romm!vars) => Romm!CaretIsDrawn'
  <2> SUFFICES ASSUME Romm!CaretIsDrawn, [Romm!Next]_(Romm!vars) PROVE Romm!CaretIsDrawn'
    OBVIOUS
  <2> USE DEF Romm!CaretIsDrawn, Romm!Credentials
  <2>1. CASE Romm!SignInOpened \/ Romm!SignInClosed \/ Romm!CredentialsTyped
     \/ Romm!SignInPressed \/ Romm!UsernameSubmitted
    BY <2>1
       DEF Romm!SignInOpened, Romm!SignInClosed, Romm!CredentialsTyped, Romm!SignInPressed,
           Romm!UsernameSubmitted
  <2>2. CASE Romm!CaretGivenUp \/ \E f \in {"Url"} \cup Romm!Credentials : Romm!FieldFocused(f)
    BY <2>2 DEF Romm!CaretGivenUp, Romm!FieldFocused
  <2>3. CASE Romm!SignedIn
    BY <2>3 DEF Romm!SignedIn
  <2>4. CASE UNCHANGED <<formCaret, signIn>>
    BY <2>4
  <2> QED
    BY <2>1, <2>2, <2>3, <2>4
       DEF Romm!Next, Romm!RefreshPressed, Romm!UrlChanged, Romm!ConnectPressed,
           Romm!RemovePressed, Romm!LoadAnswered, Romm!LinkStarted, Romm!LinkPolled, Romm!Removed,
           Romm!vars, Romm!formVars
<1> QED
  BY <1>1, <1>2, PTL DEF Romm!Spec

\* For any number of requests and poll chains, and whatever order their answers
\* come in, the form is never stuck (Form::update).
THEOREM FormStaysLive == Romm!Spec => []Romm!FormIsLive
<1>1. Romm!BusyIsAnswered /\ Romm!CodeIsWatched /\ Romm!CaretIsDrawn => Romm!FormIsLive
  BY DEF Romm!FormIsLive
<1> QED
  BY <1>1, WorkingFormIsAnswered, CodesAreWatched, CaretStaysDrawn, PTL

------------------------------------------------------------------------------
(* The launcher's other settings cards *)

VARIABLES linked, reading, code, linkBusy, starts, unlinks, chains, reads, publishing,
          readiness, syncing, installing, syncs, installs, checks

Cards == INSTANCE SettingsCards WITH
             pending <- code, busy <- linkBusy, polls <- chains, report <- readiness

(***************************************************************************)
(* The settings cards.                                                     *)
(***************************************************************************)

\* Every part of the two cards' state keeps its type.
THEOREM CardsAreTyped == Cards!Spec => []Cards!TypeOK
<1> DEFINE Counted == /\ starts \in Nat /\ unlinks \in Nat /\ chains \in Nat /\ reads \in Nat
                      /\ syncs \in Nat /\ installs \in Nat /\ checks \in Nat
           Flagged == /\ linked \in BOOLEAN /\ reading \in BOOLEAN /\ code \in BOOLEAN
                      /\ linkBusy \in BOOLEAN /\ publishing \in BOOLEAN
                      /\ syncing \in BOOLEAN /\ installing \in BOOLEAN
           Reported == readiness \in Cards!Reports
<1>0. Cards!TypeOK <=> Counted /\ Flagged /\ Reported
  BY Zenon DEF Cards!TypeOK
<1>1. Cards!Init => Counted /\ Flagged /\ Reported
  <2>1. Cards!Init => Counted /\ Reported
    BY SMT DEF Cards!Init, Cards!Reports
  <2>2. Cards!Init => Flagged
    BY Zenon DEF Cards!Init
  <2> QED
    BY <2>1, <2>2
<1>2. ASSUME Counted, [Cards!Next]_(Cards!vars) PROVE Counted'
  <2>1. CASE Cards!SettingsOpened \/ Cards!LinkPressed \/ Cards!UnlinkPressed
    BY SMT, <1>2, <2>1
       DEF Cards!SettingsOpened, Cards!LinkPressed, Cards!UnlinkPressed, Cards!readyVars
  <2>2. CASE Cards!LinkStarted \/ Cards!PollEnded \/ Cards!PollWaiting
    BY SMT, <1>2, <2>2 DEF Cards!LinkStarted, Cards!PollEnded, Cards!PollWaiting, Cards!readyVars
  <2>3. CASE Cards!Unlinked \/ Cards!ConnectionLoaded \/ Cards!SourceRefreshed
    BY SMT, <1>2, <2>3
       DEF Cards!Unlinked, Cards!ConnectionLoaded, Cards!SourceRefreshed, Cards!readyVars
  <2>4. CASE Cards!RefreshPressed \/ Cards!SyncPressed \/ Cards!InstallPressed
    BY SMT, <1>2, <2>4
       DEF Cards!RefreshPressed, Cards!SyncPressed, Cards!InstallPressed, Cards!linkVars
  <2>5. CASE Cards!BiosSynced \/ Cards!CoresInstalled \/ Cards!ReportLoaded
    BY SMT, <1>2, <2>5
       DEF Cards!BiosSynced, Cards!CoresInstalled, Cards!ReportLoaded, Cards!linkVars
  <2>6. CASE UNCHANGED Cards!vars
    BY <1>2, <2>6 DEF Cards!vars, Cards!linkVars, Cards!readyVars
  <2> QED
    BY <1>2, <2>1, <2>2, <2>3, <2>4, <2>5, <2>6 DEF Cards!Next
<1>3. ASSUME Flagged, Reported, [Cards!Next]_(Cards!vars) PROVE Flagged' /\ Reported'
  <2>1. CASE Cards!SettingsOpened \/ Cards!LinkPressed \/ Cards!UnlinkPressed
    BY <1>3, <2>1, Zenon
       DEF Cards!SettingsOpened, Cards!LinkPressed, Cards!UnlinkPressed, Cards!readyVars
  <2>2. CASE Cards!LinkStarted \/ Cards!PollEnded \/ Cards!PollWaiting
    BY <1>3, <2>2, Zenon
       DEF Cards!LinkStarted, Cards!PollEnded, Cards!PollWaiting, Cards!readyVars
  <2>3. CASE Cards!Unlinked \/ Cards!ConnectionLoaded \/ Cards!SourceRefreshed
    BY <1>3, <2>3, Zenon
       DEF Cards!Unlinked, Cards!ConnectionLoaded, Cards!SourceRefreshed, Cards!readyVars
  <2>4. CASE Cards!RefreshPressed \/ Cards!SyncPressed \/ Cards!InstallPressed
    BY <1>3, <2>4, Zenon
       DEF Cards!RefreshPressed, Cards!SyncPressed, Cards!InstallPressed, Cards!linkVars
  <2>5. CASE Cards!BiosSynced \/ Cards!CoresInstalled \/ Cards!ReportLoaded
    BY <1>3, <2>5, Zenon
       DEF Cards!BiosSynced, Cards!CoresInstalled, Cards!ReportLoaded, Cards!linkVars
  <2>6. CASE UNCHANGED Cards!vars
    BY <1>3, <2>6, Zenon DEF Cards!vars, Cards!linkVars, Cards!readyVars
  <2> QED
    BY <1>3, <2>1, <2>2, <2>3, <2>4, <2>5, <2>6 DEF Cards!Next
<1> HIDE DEF Counted, Flagged, Reported
<1> QED
  BY <1>0, <1>1, <1>2, <1>3, PTL DEF Cards!Spec

\* However many chains, reads and checks are out, the flags that lock the two cards'
\* buttons (Flow::busy, reading, pending, syncing, installing) are exactly the
\* requests whose answers unlock them.  Given its types the property is inductive:
\* a press sets its flag with its request and waits for every flag it could cross.
THEOREM CardsStayLive == Cards!Spec => []Cards!CardsAreLive
<1> USE DEF Cards!CardsAreLive
<1>1. Cards!Init => Cards!CardsAreLive
  BY SMT DEF Cards!Init, Cards!OneLinkRequest, Cards!StremioIsWatched, Cards!OneReadinessJob
<1>2. Cards!CardsAreLive /\ Cards!TypeOK /\ [Cards!Next]_(Cards!vars) => Cards!CardsAreLive'
  <2> SUFFICES ASSUME Cards!CardsAreLive, Cards!TypeOK, [Cards!Next]_(Cards!vars)
               PROVE  Cards!CardsAreLive'
    OBVIOUS
  <2> USE DEF Cards!TypeOK, Cards!OneLinkRequest, Cards!StremioIsWatched, Cards!OneReadinessJob
  <2>1. CASE Cards!SettingsOpened \/ Cards!LinkPressed \/ Cards!UnlinkPressed
    BY SMT, <2>1 DEF Cards!SettingsOpened, Cards!LinkPressed, Cards!UnlinkPressed, Cards!readyVars
  <2>2. CASE Cards!LinkStarted \/ Cards!PollEnded \/ Cards!PollWaiting
    BY SMT, <2>2 DEF Cards!LinkStarted, Cards!PollEnded, Cards!PollWaiting, Cards!readyVars
  <2>3. CASE Cards!Unlinked \/ Cards!ConnectionLoaded \/ Cards!SourceRefreshed
    BY SMT, <2>3
       DEF Cards!Unlinked, Cards!ConnectionLoaded, Cards!SourceRefreshed, Cards!readyVars
  <2>4. CASE Cards!RefreshPressed \/ Cards!SyncPressed \/ Cards!InstallPressed
    BY SMT, <2>4
       DEF Cards!RefreshPressed, Cards!SyncPressed, Cards!InstallPressed, Cards!Idle,
           Cards!linkVars
  <2>5. CASE Cards!BiosSynced \/ Cards!CoresInstalled \/ Cards!ReportLoaded
    BY SMT, <2>5 DEF Cards!BiosSynced, Cards!CoresInstalled, Cards!ReportLoaded, Cards!linkVars
  <2>6. CASE UNCHANGED Cards!vars
    BY <2>6 DEF Cards!vars, Cards!linkVars, Cards!readyVars
  <2> QED
    BY <2>1, <2>2, <2>3, <2>4, <2>5, <2>6 DEF Cards!Next
<1> QED
  BY <1>1, <1>2, CardsAreTyped, PTL DEF Cards!Spec
==============================================================================

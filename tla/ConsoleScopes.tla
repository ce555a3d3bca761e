---------------------------- MODULE ConsoleScopes ----------------------------
(***************************************************************************)
(* The launcher's console grid: a cache of page logs, one per scope (a tab *)
(* narrowed by a search term and a facet selection), filled by page        *)
(* requests that answer late, in any order or not at all, warmed by a      *)
(* bounded prefetch of the tabs, trimmed by eviction, and retired whole    *)
(* when the RomM connection behind it changes.                             *)
(***************************************************************************)
EXTENDS Integers, Sequences, FiniteSets

CONSTANTS Platforms,    \* RomM platforms that may have a tab
          All,          \* the "all consoles" tab, which has no platform
          Absent,       \* a scope the cache has no log of
          Terms,        \* search terms; "" is the empty box
          Facets,       \* facet values that may be selected
          MaxPrefetch,  \* MAX_PREFETCH_INFLIGHT
          MaxNarrowed,  \* MAX_NARROWED_SCOPES
          MaxEntries,   \* bound: entries a source has for a scope, one per page
          MaxLoads,     \* bound: first pages requested
          MaxSources,   \* bound: connections the source has had
          MaxTimers     \* bound: search debounces running

ASSUME NamesDiffer == All \notin Platforms /\ "" \in Terms
ASSUME LimitsFit == MaxPrefetch \in Nat /\ MaxNarrowed \in Nat /\ MaxPrefetch <= MaxNarrowed

Scopes == [platform : Platforms \cup {All}, search : Terms, facets : SUBSET Facets]

ASSUME ScopesAreFinite == IsFiniteSet(Scopes)

PlainScope(platform) == [platform |-> platform, search |-> "", facets |-> {}]

IsPlain(scope) == scope.search = "" /\ scope.facets = {}

VARIABLES console,      \* ConsoleScopes: logs, recency, prefetch queue, generation
          sent,         \* page requests whose reply is still to be handled
          source,       \* ConsoleScopes::source
          section,      \* "console" or "local": the section on screen
          scope,        \* console_scope(): tab, search box and facets
          timers,       \* terms of the running search debounces, oldest first
          visible       \* what the grid draws while the section is "console"

vars == <<console, sent, source, section, scope, timers, visible>>

Entries == [scope : Scopes, source : Nat, generation : Nat, position : Nat]
Logs == [entries : Seq(Entries), next : Nat, pending : BOOLEAN, generation : Nat, loaded : BOOLEAN]
Requests == [scope : Scopes, generation : Nat, offset : Nat, source : Nat]
Caches == [logs : [Scopes -> Logs \cup {Absent}], older : SUBSET (Scopes \X Scopes),
           prefetch : Seq(Scopes), generation : Nat]

ASSUME AbsentIsNoLog == Absent \notin Logs

TypeOK ==
    /\ console \in Caches
    /\ sent \subseteq Requests
    /\ source \in Nat
    /\ section \in {"console", "local"} /\ scope \in Scopes
    /\ timers \in Seq(Terms)
    /\ visible \in Seq(Entries)

EmptyLog == [entries |-> <<>>, next |-> 0, pending |-> FALSE, generation |-> 0, loaded |-> FALSE]

Init ==
    /\ console = [logs |-> [s \in Scopes |-> Absent], older |-> {}, prefetch |-> <<>>,
                  generation |-> 0]
    /\ sent = {} /\ source = 0
    /\ section = "local" /\ scope = PlainScope(All)
    /\ timers = <<>> /\ visible = <<>>

------------------------------------------------------------------------------
(* The cache's own operations: each takes the cache c and returns it changed *)

Has(c, s) == c.logs[s] # Absent

Held(c, s) == IF Has(c, s) THEN c.logs[s] ELSE EmptyLog

EntriesOf(c, s) == Held(c, s).entries

\* Loaded or loading: a first page of s is not to be asked for.
Served(c, s) == Held(c, s).loaded \/ Held(c, s).pending

Inflight(c) == Cardinality({s \in Scopes : Held(c, s).pending})

NarrowedScopes(c) == {s \in Scopes : Has(c, s) /\ ~IsPlain(s)}

Narrowed(c) == Cardinality(NarrowedScopes(c))

\* <<s, t>> is in older when ConsoleListing::used of s is below that of t.  Only
\* narrowed scopes are in it: evict reads the stamp of no other.
Touch(c, s) ==
    IF s \notin NarrowedScopes(c) THEN c
    ELSE [c EXCEPT !.older = {p \in @ : p[1] # s /\ p[2] # s}
                                 \cup {<<t, s>> : t \in NarrowedScopes(c) \ {s}}]

\* Mutant: a narrowed scope goes although there is room for it.
EvictOneMore(c) ==
    LET idle == {s \in NarrowedScopes(c) : ~c.logs[s].pending}
        over == Narrowed(c) - MaxNarrowed + 1
        gone == {s \in idle : Cardinality({t \in idle : <<t, s>> \in c.older}) < over}
    IN  [c EXCEPT !.logs = [s \in Scopes |-> IF s \in gone THEN Absent ELSE @[s]],
                  !.older = {p \in @ : p[1] \notin gone /\ p[2] \notin gone}]

\* The least recently used narrowed scopes go, those still loading excepted.
Evict(c) ==
    LET idle == {s \in NarrowedScopes(c) : ~c.logs[s].pending}
        over == Narrowed(c) - MaxNarrowed
        gone == {s \in idle : Cardinality({t \in idle : <<t, s>> \in c.older}) < over}
    IN  [c EXCEPT !.logs = [s \in Scopes |-> IF s \in gone THEN Absent ELSE @[s]],
                  !.older = {p \in @ : p[1] \notin gone /\ p[2] \notin gone}]

\* begin at offset 0: a load of its own, under a generation never used before.
Begin(c, s) ==
    LET generation == c.generation + 1
        log == [Held(c, s) EXCEPT !.generation = generation, !.next = 0, !.pending = TRUE]
    IN  Evict(Touch([c EXCEPT !.logs[s] = log, !.generation = generation], s))

\* begin at a later offset: extends the load the log already has.
Extend(c, s) == Evict(Touch([c EXCEPT !.logs[s] = [@ EXCEPT !.pending = TRUE]], s))

\* Mutant: a page is taken whatever load it belongs to.
AcceptsAny(c, request) == Has(c, request.scope)

\* apply and failed take only what the log's present load asked for.
Accepts(c, request) ==
    Has(c, request.scope) /\ c.logs[request.scope].generation = request.generation

Applied(c, request, page, more) ==
    LET log == c.logs[request.scope]
    IN  [c EXCEPT !.logs[request.scope] =
            [log EXCEPT !.entries = IF request.offset = 0 THEN page ELSE log.entries \o page,
                        !.next = IF more THEN request.offset + Len(page) ELSE 0,
                        !.pending = FALSE, !.loaded = TRUE]]

Failed(c, request) == [c EXCEPT !.logs[request.scope] = [@ EXCEPT !.pending = FALSE]]

\* The tabs queue_prefetch queues: owed a first page and not in the queue.
Unqueued(c, platforms) ==
    {p \in platforms \cup {All} :
        /\ ~Served(c, PlainScope(p))
        /\ \A i \in DOMAIN c.prefetch : c.prefetch[i] # PlainScope(p)}

\* The orders they may stand in, the plain "all consoles" first.
Orders(tabs) ==
    {o \in [1 .. Cardinality(tabs) -> tabs] :
        /\ \A i, j \in DOMAIN o : o[i] = o[j] => i = j
        /\ All \in tabs => o[1] = All}

Queued(c, order) ==
    [c EXCEPT !.prefetch = @ \o [i \in 1 .. Len(order) |-> PlainScope(order[i])]]

\* How many prefetches may start now.
Room(c) == MaxPrefetch - Inflight(c)

\* The places in the queue whose scopes nobody has asked for since, and how many of
\* them are among the first n.
Owed(c) == {i \in 1 .. Len(c.prefetch) : ~Served(c, c.prefetch[i])}

OwedTo(c, n) == Cardinality(Owed(c) \cap (1 .. n))

\* next_prefetch pops the queue until the limit is reached or it is empty.
Popped(c) ==
    IF Room(c) <= 0 THEN 0
    ELSE IF OwedTo(c, Len(c.prefetch)) < Room(c) THEN Len(c.prefetch)
    ELSE CHOOSE n \in Owed(c) : OwedTo(c, n) = Room(c)

\* The scopes it pops and begins; a second eviction would find nothing to do.
Pumped(c) ==
    LET begun == {i \in Owed(c) : i <= Popped(c)}
        at(s) == CHOOSE i \in begun : c.prefetch[i] = s
        log(s) == [Held(c, s) EXCEPT !.generation = c.generation + OwedTo(c, at(s)), !.next = 0,
                                     !.pending = TRUE]
        next == [c EXCEPT
            !.logs = [s \in Scopes |-> IF \E i \in begun : c.prefetch[i] = s THEN log(s) ELSE @[s]],
            !.generation = @ + Cardinality(begun),
            !.prefetch = SubSeq(@, Popped(c) + 1, Len(@))]
    IN  IF begun = {} THEN next ELSE Evict(next)

------------------------------------------------------------------------------
(* The shell around it *)

\* The requests the first pages begun between before and c make.
Issued(before, c) ==
    {[scope |-> s, generation |-> c.logs[s].generation, offset |-> 0, source |-> source] :
        s \in {t \in Scopes : Has(c, t) /\ c.logs[t].pending
                              /\ (~Has(before, t) \/ before.logs[t].generation # c.logs[t].generation)}}

\* ensure_console_scope: draws what the scope holds and asks for it if need be.
Ensured(c, s) == IF Served(c, s) THEN Touch(c, s) ELSE Begin(Touch(c, s), s)

InBounds == console'.generation <= MaxLoads

\* What a handler leaves of the cache: c, and the requests that made it so.
Becomes(c) ==
    /\ console' = c /\ InBounds
    /\ sent' = sent \cup Issued(console, c)

\* The scope on screen changes and is drawn at once.
Show(s) ==
    /\ section' = "console" /\ scope' = s
    /\ Becomes(Ensured(console, s))
    /\ visible' = EntriesOf(console', s)
    /\ UNCHANGED <<source, timers>>

\* apply_section_with_group: the section's own tab, or a console picked on the
\* dashboard; the search box is emptied and the facets dropped.
EnterSection == \E p \in Platforms \cup {All} : Show(PlainScope(p))

LeaveSection ==
    /\ section = "console" /\ section' = "local"
    /\ scope' = PlainScope(All) /\ visible' = <<>>
    /\ UNCHANGED <<console, sent, source, timers>>

\* apply_group: another tab, with the search term kept and the facets dropped.
SelectTab(platform) ==
    /\ section = "console"
    /\ Show([scope EXCEPT !.platform = platform, !.facets = {}])

\* A facet selection applies at once.
SelectFacet == section = "console" /\ \E f \in SUBSET Facets : Show([scope EXCEPT !.facets = f])

\* InputChanged: the query waits until the typing stops, and the grid with it.
Type(term) ==
    /\ section = "console" /\ Len(timers) < MaxTimers
    /\ scope' = [scope EXCEPT !.search = term]
    /\ timers' = Append(timers, term)
    /\ UNCHANGED <<console, sent, source, section, visible>>

\* Mutant: a debounce's term is compared with an empty box, not with the box.
SettleForTerm ==
    /\ timers # <<>> /\ timers' = Tail(timers)
    /\ IF section # "console" \/ Head(timers) # ""
       THEN UNCHANGED <<console, sent, section, scope, visible>>
       ELSE /\ Becomes(Ensured(console, scope))
            /\ visible' = EntriesOf(console', scope) /\ UNCHANGED <<section, scope>>
    /\ UNCHANGED source

\* ConsoleSearchSettled: only the term still in the box is searched for.
SearchSettled ==
    /\ timers # <<>> /\ timers' = Tail(timers)
    /\ IF section # "console" \/ Head(timers) # scope.search
       THEN UNCHANGED <<console, sent, section, scope, visible>>
       ELSE /\ Becomes(Ensured(console, scope))
            /\ visible' = EntriesOf(console', scope) /\ UNCHANGED <<section, scope>>
    /\ UNCHANGED source

\* GridScrolled past the last row of a log that has more.
GridScrolled ==
    /\ section = "console" /\ Held(console, scope).next > 0 /\ ~Held(console, scope).pending
    /\ console' = Extend(console, scope)
    /\ sent' = sent \cup {[scope |-> scope, generation |-> console.logs[scope].generation,
                           offset |-> console.logs[scope].next, source |-> source]}
    /\ UNCHANGED <<source, section, scope, timers, visible>>

\* ConsolePageLoaded with a page: logged in its own scope, drawn if that is on
\* screen, and a chance for the next prefetch either way.  A page has one entry,
\* or none: the scope is empty, or became shorter since the first page.
PageLoaded(request) ==
    \E n \in 0 .. 1, more \in BOOLEAN :
        LET page == [i \in 1 .. n |-> [scope |-> request.scope, source |-> request.source,
                                       generation |-> request.generation,
                                       position |-> request.offset]]
            taken == Accepts(console, request)
            c == IF taken THEN Applied(console, request, page, more) ELSE console
        IN  /\ more => n > 0 /\ request.offset + n < MaxEntries
            /\ console' = Pumped(c) /\ InBounds
            /\ sent' = (sent \ {request}) \cup Issued(c, console')
            /\ visible' = IF taken /\ section = "console" /\ request.scope = scope
                          THEN EntriesOf(console', scope) ELSE visible
            /\ UNCHANGED <<source, section, scope, timers>>

\* ConsolePageLoaded with an error.
PageFailed(request) ==
    LET taken == Accepts(console, request)
        c == IF taken THEN Failed(console, request) ELSE console
    IN  /\ console' = Pumped(c) /\ InBounds
        /\ sent' = (sent \ {request}) \cup Issued(c, console')
        /\ UNCHANGED <<source, section, scope, timers, visible>>

\* ConsolesLoaded with the platforms the present source has (LauncherReads models
\* the reads, and how the list of a retired source is dropped): their tabs are queued
\* for the prefetch, and the tab on screen is kept if it is still there.
ConsolesLoaded(platforms, order) ==
    LET c == Pumped(Queued(console, order))
        s == IF scope.platform \in platforms \cup {All} THEN scope
             ELSE [scope EXCEPT !.platform = All, !.facets = {}]
    IN  /\ IF section = "console"
           THEN /\ Becomes(Ensured(c, s)) /\ scope' = s
                /\ visible' = EntriesOf(console', s)
           ELSE Becomes(c) /\ UNCHANGED <<scope, visible>>
        /\ UNCHANGED <<source, section, timers>>

Retired(c) ==
    [c EXCEPT !.logs = [s \in Scopes |-> Absent], !.older = {}, !.prefetch = <<>>]

\* invalidate_console_source: the feed came back after a drop, and the platform
\* list is read again; the tabs stay until it answers.
FeedResumed ==
    /\ source < MaxSources /\ source' = source + 1
    /\ console' = Retired(console)
    /\ IF section = "console"
       THEN scope' = [scope EXCEPT !.facets = {}] /\ visible' = <<>>
       ELSE UNCHANGED <<scope, visible>>
    /\ UNCHANGED <<sent, section, timers>>

\* romm_connection_changed: another connection, or none any more.
ConnectionChanged ==
    /\ source < MaxSources /\ source' = source + 1
    /\ console' = Retired(console)
    /\ IF section = "console"
       THEN /\ scope' = [scope EXCEPT !.platform = All, !.facets = {}]
            /\ visible' = <<>>
       ELSE UNCHANGED <<scope, visible>>
    /\ UNCHANGED <<sent, section, timers>>

\* refilter for another reason: the catalog or the configuration changed.
Refilter ==
    /\ section = "console" /\ visible' = EntriesOf(console, scope)
    /\ UNCHANGED <<console, sent, source, section, scope, timers>>

Next ==
    \/ EnterSection \/ LeaveSection \/ SelectFacet \/ SearchSettled
    \/ \E p \in Platforms \cup {All} : SelectTab(p)
    \/ \E t \in Terms : Type(t)
    \/ GridScrolled \/ FeedResumed \/ ConnectionChanged \/ Refilter
    \/ \E r \in sent : PageLoaded(r) \/ PageFailed(r)
    \/ \E ps \in SUBSET Platforms :
          \E o \in Orders(Unqueued(console, ps)) : ConsolesLoaded(ps, o)

Spec == Init /\ [][Next]_vars

------------------------------------------------------------------------------
(* Properties *)

\* The search box waits for a debounce to query for what it says.
Settling == \E i \in 1 .. Len(timers) : timers[i] = scope.search

\* "One scope's pages are never another scope's list": a log is a contiguous run
\* of the source's positions, from the first, all of it asked for in this scope,
\* of the present connection, in one load (ConsoleListing::apply).
LogsArePure ==
    \A s \in Scopes : Has(console, s) =>
        /\ \A i \in 1 .. Len(console.logs[s].entries) :
              LET e == console.logs[s].entries[i]
              IN  /\ e.scope = s /\ e.source = source /\ e.position = i - 1
                  /\ e.generation = console.logs[s].entries[1].generation
        /\ console.logs[s].next \in {0, Len(console.logs[s].entries)}

\* A log waits exactly while one request of its present load is out: no request
\* is made twice, and none is waited for that cannot answer (ConsoleListing::start).
PendingIsExact ==
    \A s \in Scopes : Has(console, s) =>
        Cardinality({r \in sent : Accepts(console, r) /\ r.scope = s})
            = IF console.logs[s].pending THEN 1 ELSE 0

\* Once the typing has settled the grid draws the log of the scope on screen,
\* whatever was loaded, dropped or retired behind it (App::refilter).
GridDrawsScope ==
    section = "console" /\ ~Settling => visible = EntriesOf(console, scope)

\* The log on screen is never evicted: it goes only with its connection.  This
\* rests on MAX_NARROWED_SCOPES being at least MAX_PREFETCH_INFLIGHT, because a
\* prefetch is the one load that can evict while another scope is on screen.
ScreenIsKept ==
    [][section = "console" /\ ~Settling /\ Has(console, scope) /\ scope' = scope
          /\ source' = source => Has(console', scope)]_vars

\* The background warm-up never stalls: scopes wait in its queue only while
\* MAX_PREFETCH_INFLIGHT requests or more are out, whoever made them.
PrefetchMoves == console.prefetch # <<>> => Inflight(console) >= MaxPrefetch

\* Opening a scope leaves at most MAX_NARROWED_SCOPES searches in the cache, or
\* only ones still loading above that: "a long session of searching cannot grow
\* the cache without bound".
CacheIsTrimmed ==
    [][console'.generation # console.generation =>
          \/ Narrowed(console') <= MaxNarrowed
          \/ \A s \in Scopes : Has(console', s) /\ ~IsPlain(s) => console'.logs[s].pending]_vars

\* Every log holds its own scope's pages in order and waits exactly for the page
\* that was asked for, and the warm-up never stalls with scopes still queued.
PagesAreExact == LogsArePure /\ PendingIsExact /\ PrefetchMoves

\* Eviction takes enough, and never what is on screen.
EvictionIsExact == CacheIsTrimmed /\ ScreenIsKept
==============================================================================

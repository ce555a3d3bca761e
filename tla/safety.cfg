SPECIFICATION MCSpec
CONSTANTS
    Pads = {p1}
    Controls = {"Guide", "West", "Start", "Select", "DpadUp", "StickUp", "DpadDown"}
    None = none
    MapPads = {p1, p2}
    Uuids = {a, b}
    Heroic = heroic
    MaxLaunches = 2
    Platforms = {p1}
    All = all
    Absent = absent
    Terms = {"", "t"}
    Facets = {}
    MaxPrefetch = 1
    MaxNarrowed = 1
    MaxEntries = 2
    MaxLoads = 3
    MaxSources = 1
    MaxTimers = 1
    Files = {f1, f2}
    Flags = {favorite, backlog}
    MaxPresses = 2
    MaxReads = 2
INVARIANTS
    MCTypeOK
    HoldsAreExact
    NothingStuck
    PagesAreExact
    GridDrawsScope
    FlagsSettle
PROPERTIES
    NothingReplayed
    DropsOnlyStopped
    EvictionIsExact
SYMMETRY MCSymmetry
CHECK_DEADLOCK FALSE

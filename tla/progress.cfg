SPECIFICATION MCSpec
CONSTANTS
    MaxEvents = 1
    MaxCloses = 2
    MaxLogOuts = 1
    MaxChanges = 1
    MaxUnheard = 2
    MaxFailures = 1
    MaxDrops = 1
    MaxLoads = 1
    MaxJobs = 2
    MaxChains = 2
    MaxReads = 2
INVARIANTS
    MCTypeOK
    MenuIsHonest
    
    ReadsAreBacked
    FormIsLive
    CardsAreLive
PROPERTIES
    MenuResponds
    WayOut
    DrawnCatchesUp
    BusyEnds

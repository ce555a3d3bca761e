SPECIFICATION FairSpec
CONSTANTS
    Handlers = {h1, h2}
    None = none
    MaxKeys = 2
    MaxVersion = 1
    MaxFaults = 1
INVARIANTS
    Coalesced
    UnlinkIsComplete
PROPERTIES
    WorkerRecovers
    LeftoversGo
    RowsCatchUp

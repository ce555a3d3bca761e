SPECIFICATION MCSpec
CONSTANTS
    Uuids = {a, b}
    Heroic = heroic
    None = none
    MaxLaunches = 3
    DiskFaults = FALSE
    Requests = {r1, r2}
    Versions = {v1}
INVARIANTS
    OneManaged
    RecordsAgree
    SlotIsExact
    OffIsClean
    RailsFollowReport
PROPERTIES
    ImplementsSlot
    ProfileHeals
    SlotIsFreed

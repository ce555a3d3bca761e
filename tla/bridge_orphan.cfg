SPECIFICATION Spec
CONSTANTS
    Uuids = {a, b}
    Heroic = heroic
    None = none
    MaxLaunches = 3
    DiskFaults = FALSE
INVARIANTS
    AtMostOneRunning

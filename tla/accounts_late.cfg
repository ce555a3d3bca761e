SPECIFICATION Spec
CONSTANTS
    Handlers = {h1, h2}
    None = none
    MaxKeys = 1
    MaxVersion = 0
    MaxFaults = 0
INVARIANTS
    NoLateLink

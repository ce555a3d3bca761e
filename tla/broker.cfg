SPECIFICATION FairSpec
CONSTANTS
    Conns = {c1, c2}
    Pads = {p1}
    None = none
    Slots = 2
    Burst = 2
INVARIANTS
    CaptureIsExclusive
    MappingYields
    ActionsReachOwner
PROPERTIES
    CaptureIsReleased

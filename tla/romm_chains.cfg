SPECIFICATION Spec
CONSTANTS
    MaxJobs = 2
    MaxChains = 2
INVARIANTS
    OnePollChain

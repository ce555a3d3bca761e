SPECIFICATION FairSpec
CONSTANTS
    Plays = {p, q, h}
    HeroicPlays = {h}
    Heroic = heroic
    Stoppers = {s1}
    Watcher = watcher
    None = none
INVARIANTS
    ClosedOnlyAfterEnd
    CreditedOnce
    OpenWhilePlaying
PROPERTIES
    EndedPlaysAreClosed

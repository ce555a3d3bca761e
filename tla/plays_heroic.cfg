SPECIFICATION Spec
CONSTANTS
    Plays = {p, h, g}
    HeroicPlays = {h, g}
    Heroic = heroic
    Stoppers = {s1}
    Watcher = watcher
    None = none
INVARIANTS
    OneRowPerPlay

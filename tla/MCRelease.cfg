CONSTANTS
    Shas = {s0, s1, bad}
    Good = {s0, s1}
    Old = s0
    Laptops = {l1}
    Dev = dev
    Rooms = {r1}
    None = None
    MaxFailures = 1
    MaxMoves = 3
    MaxBusy = 1
SPECIFICATION FairSpec
ACTION_CONSTRAINT LastRepeats
INVARIANTS
    BootsIntoAGoodRelease
    OneWinner
PROPERTIES
    ToldOnce
    MovesArriveAtTheHost

CHECK_DEADLOCK FALSE

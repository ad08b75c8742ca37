CONSTANTS
    Callers = {a, b}
    Nobody = Nobody
    MaxSessions = 4
    MaxCalls = 3
    MaxCloses = 1
    MaxFaults = 2
SPECIFICATION FairSpec
INVARIANTS
    NoSessionIsLeaked
    OneLossIsMadeGood
PROPERTIES
    KeepsThePromise

CHECK_DEADLOCK FALSE

CONSTANTS
    People = {owner, stranger}
    Allowed = {owner}
    At = {0}
    Day = 2
    None = None
    MaxStanzas = 2
    MaxSessions = 4
    MaxLines = 2
    MaxTime = 2
    MaxFaults = 1
SPECIFICATION Spec
PROPERTIES SlotsDuringATurnAreServed
CHECK_DEADLOCK FALSE

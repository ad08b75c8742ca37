CONSTANTS
    Names = {n1}
    Callers = {c1, c2}
    Entries = {e1, e2}
    None = None
    Idle = 0
    MaxTime = 0
    Runner = c1
SPECIFICATION RolesSpec
PROPERTIES
    KeepsTheLifecycle
    CallsReturn
    CloseReturns

CHECK_DEADLOCK FALSE

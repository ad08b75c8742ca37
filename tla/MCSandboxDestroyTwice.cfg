CONSTANTS
    Names = {n1}
    Callers = {c1, c2}
    Entries = {e1, e2}
    None = None
    Idle = 1
    MaxTime = 1
    Runner = None
SPECIFICATION Spec
SYMMETRY Symmetry
PROPERTIES
    DestroyOfGoneSucceeds
CHECK_DEADLOCK FALSE

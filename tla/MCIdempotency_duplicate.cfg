SPECIFICATION Spec
CONSTANTS
    None = None
    Attempts = {p1, p2}
    Keys = {k1}
    Targets = {t1}
    Bodies = {b1}
    Calm = {}
    MaxFaults = 0
INVARIANT AtMostOnce
CHECK_DEADLOCK FALSE

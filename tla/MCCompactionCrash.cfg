CONSTANTS
    f1 = f1
    f2 = f2
    Flows = {f1}
    Work = 2
    MaxFlows = 1
    Retained = 1
    MaxGeneration = 1
    Extents <- MCShort
SPECIFICATION Spec
INVARIANTS ServedOnce
CHECK_DEADLOCK FALSE

CONSTANTS
    f1 = f1
    f2 = f2
    Flows = {f1}
    Work = 2
    MaxFlows = 1
    Retained = 2
    MaxGeneration = 2
    Extents <- MCShort
SPECIFICATION Spec
INVARIANTS RecoveryOpens
CHECK_DEADLOCK FALSE

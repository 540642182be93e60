CONSTANTS
    f1 = f1
    f2 = f2
    Flows = {f1, f2}
    Work = 2
    MaxFlows = 2
    Retained = 1
    MaxGeneration = 2
    Extents <- MCExtents
SPECIFICATION Spec
INVARIANTS TypeOK TicketsUnique CreditedOnce
PROPERTIES NoLivenessRestored ReplayRestores
SYMMETRY FlowSymmetry
CHECK_DEADLOCK FALSE

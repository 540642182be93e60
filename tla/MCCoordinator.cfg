CONSTANTS
    Flows = {1, 2}
    MaxFlows = 2
    Retained = 1
    Workers = {w1, w2}
    Work = 1
    Quantum = 1
    MaxOverlap = 1
    MaxSchedules = 4
    Plans <- MCPlans
SPECIFICATION FairSpec
INVARIANTS TypeOK AttemptsTracked AnswerPending NoAmbiguityRests
PROPERTIES Converges
CHECK_DEADLOCK FALSE

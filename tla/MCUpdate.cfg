SPECIFICATION Spec
CONSTANTS
    Flows = {1, 2}
    Resources = {"r"}
    Reservations = {}
    Boots = {"b1"}
    FlowSpace <- ChangingFlows
    ResourceSpace <- ChangingResources
    ReservationSpace <- NoDescriptors
    PolicySpace <- UpdatedPolicies
    SignalSpace <- AllSignals
    FirstPolicy <- PlainPolicy
    JournalMayFail = FALSE
    MaxTick = 1
    MaxLag = 1
    MaxGeneration = 2
    MaxEpoch = 1
    MaxSchedules = 2
    MaxAttempts = 2
CONSTRAINT OneOrTwoFlows
INVARIANTS
    WindowHeld
    CompletedMeansServed
PROPERTIES
    NoServiceBeyondWork
    ScheduledOnlyWhenReady

SPECIFICATION Spec
CONSTANTS
    Flows = {1, 2}
    Resources = {"r"}
    Reservations = {}
    Boots = {"b1", "b2"}
    FlowSpace <- PlainFlows
    ResourceSpace <- PlainResources
    ReservationSpace <- NoDescriptors
    PolicySpace <- NoDescriptors
    SignalSpace <- NoDescriptors
    FirstPolicy <- PreemptingPolicy
    JournalMayFail = FALSE
    MaxTick = 1
    MaxLag = 1
    MaxGeneration = 1
    MaxEpoch = 2
    MaxSchedules = 3
    MaxAttempts = 2
INVARIANTS
    TypeOK
    AuthorityExclusive
    BooksBalance
    NoTransientAtRest
    CommittedOnOwnTicket
PROPERTIES
    ClosedIsFinal
    TerminalIsFinal
    ImplementsContract

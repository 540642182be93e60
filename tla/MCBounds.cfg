SPECIFICATION Spec
CONSTANTS
    Flows = {1, 2}
    Resources = {"r"}
    Reservations = {1}
    Boots = {"b1"}
    FlowSpace <- BoundFlows
    ResourceSpace <- BoundResources
    ReservationSpace <- WindowReservations
    PolicySpace <- NoDescriptors
    SignalSpace <- NoDescriptors
    FirstPolicy <- StrictPolicy
    JournalMayFail = TRUE
    MaxTick = 2
    MaxLag = 1
    MaxGeneration = 1
    MaxEpoch = 1
    MaxSchedules = 2
    MaxAttempts = 2
CONSTRAINT DeadlineOrReservation
INVARIANTS
    BooksBalance
PROPERTIES
    ReservationWithinCapacity
    OverdueStopped

SPECIFICATION FairSpec
CONSTANTS
    Flows = {1, 2, 3}
    Settings <- MCSettings
    kVirtualTimeScale = 2
    NoDeadline = 9
    MaxWeight = 3
INVARIANTS TypeOK FairShare
PROPERTIES WorkConserving TierOrder NoExchange PeersServed

SPECIFICATION FairSpec
CONSTANTS
    Flows = {1, 2, 3}
    Settings <- MCOverload
    kVirtualTimeScale = 2
    NoDeadline = 9
    MaxWeight = 3
PROPERTIES NoStarvation

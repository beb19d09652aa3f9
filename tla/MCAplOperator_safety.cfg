SPECIFICATION Spec
CONSTANTS
    MaxUserCommits = 2
    UserCommitKinds <- MarkedCommits
    MaxWrites = 1
    MaxFaults = 1
    Faults = {"git", "apply", "stateWrite", "crash", "evict"}
INVARIANTS
    TypeOK
    OneApplyAtATime
    AppliesWhatItReports
PROPERTIES
    SkipsOnlyMarked
    NoPlatformChangeMissed
    ImplementsDelivery

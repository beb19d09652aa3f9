SPECIFICATION FairSpec
CONSTANTS
    Faults = {"call", "statusWrite", "crash", "evict"}
    MaxFaults = 3
INVARIANTS
    TypeOK
    CompletedMeansInstalled
    RunsOnInstalled
PROPERTIES
    NeverReinstalled
    SucceedsUnlessHalfDone

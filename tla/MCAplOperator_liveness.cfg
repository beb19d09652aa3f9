SPECIFICATION FairSpec
CONSTANTS
    MaxUserCommits = 1
    UserCommitKinds <- PlainCommits
    MaxWrites = 1
    MaxFaults = 1
    Faults = {"git", "apply", "swallow", "pause", "stateWrite", "crash", "evict"}
PROPERTIES
    Convergence
    OutcomeReported

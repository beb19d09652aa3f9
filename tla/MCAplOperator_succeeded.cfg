SPECIFICATION Spec
CONSTANTS
    MaxUserCommits = 2
    UserCommitKinds <- PlainCommits
    MaxWrites = 0
    MaxFaults = 0
    Faults = {}
INVARIANTS
    SucceededMeansApplied

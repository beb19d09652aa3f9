SPECIFICATION Spec
CONSTANTS
    MaxUserCommits = 2
    UserCommitKinds <- PlatformCommits
    MaxWrites = 1
    MaxFaults = 2
    Faults = {"conflict", "cleanup", "crash"}
PROPERTIES
    NoRollback
    UserWorkSurvives

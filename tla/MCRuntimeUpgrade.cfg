SPECIFICATION FairSpec
CONSTANTS
    MaxRelease = 3
    Upgrades = {1, 2, 3}
    MaxChanges = 2
    MaxFaults = 2
    Faults = {"throw", "crash", "swallow", "statusWrite", "statusRead"}
INVARIANTS
    TypeOK
PROPERTIES
    NoOperationSkipped
    NoOperationRepeated
    Upgraded

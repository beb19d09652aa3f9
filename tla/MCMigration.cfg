SPECIFICATION FairSpec
CONSTANTS
    a = a
    b = b
    Latest = 4
    Removals = {2}
    SecretsChange = 3
    Apps = {a, b}
    Enabled = {a}
    Faults = {"call", "resume", "write", "push", "reset", "crash", "evict"}
    MaxFaults = 3
INVARIANTS
    RecordedMeansMigrated
    SecretsSurvive
    PausedIsRepeated
PROPERTIES
    Migrated

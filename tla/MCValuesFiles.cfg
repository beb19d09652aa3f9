SPECIFICATION Spec
CONSTANTS
    Teams = {"dev"}
    LastKey = 2
    Paths = {"versions", "services", "workloadValues"}
    Faults = {"write", "crash", "reset"}
    MaxNodes = 2
    MaxSaves = 2
INVARIANTS
    TypeOK
    LoadIsDeterministic
    SavedIsLoaded

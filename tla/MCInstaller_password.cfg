SPECIFICATION FairSpec
CONSTANTS
    Faults = {"call"}
    MaxFaults = 1
PROPERTIES
    StandardInstallSucceeds

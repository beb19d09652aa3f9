SPECIFICATION FairSpec
CONSTANTS
    Deployments = {d}
    Tekton = {t}
    Standalone = {s}
    Replicas = 2
    Faults = {"read", "patch", "delete", "mark", "crash", "wait", "stale", "replace", "apply", "record"}
    MaxFaults = 2
INVARIANTS
    OncePerJob
    MarkedHaveKeys
    ProxiesCurrent
PROPERTIES
    MarkedInTheEnd

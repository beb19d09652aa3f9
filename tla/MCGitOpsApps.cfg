SPECIFICATION FairSpec
CONSTANTS
    core = core
    team = team
    ns = ns
    global = global
    Core = {core}
    Releases = {core, team}
    TeamReleases = {team}
    Namespaces = {ns}
    Global = global
    Faults = {"list", "apply", "remove", "restart", "call", "crash", "reset", "stuck"}
    MaxFaults = 2
    MaxChanges = 1
INVARIANTS
    NoOrphans
PROPERTIES
    WantedKept
    Converges

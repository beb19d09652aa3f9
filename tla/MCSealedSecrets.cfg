SPECIFICATION FairSpec
CONSTANTS
    admin = admin
    Users = {admin}
    Admin = admin
    Faults = {"call", "crash", "evict", "readKey", "createKey", "apply", "restart", "list"}
    MaxFaults = 3
    MaxBootstraps = 4
INVARIANTS
    TypeOK
    SealedWithStoredKey
    SecretsReady
    PasswordShown
PROPERTIES
    StoredKeyKept
    CAConverges
    SucceedsUnlessLostKey

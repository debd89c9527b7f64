SPECIFICATION FairSpec
CONSTANTS
    c1 = c1
    c2 = c2
    h1 = h1
    h2 = h2
    Configs <- MCConfigs
    Hash <- MCHash
    Hashes <- MCHashes
    BootConfig = c1
    NoCfg = NoCfg
    NoHash = NoHash
    Environments <- LivenessEnvironments
CHECK_DEADLOCK FALSE
PROPERTIES OperationsEnd ShutdownCompletes

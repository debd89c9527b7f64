SPECIFICATION Spec
CONSTANTS
    c1 = c1
    c2 = c2
    h1 = h1
    h2 = h2
    Configs <- MCConfigs
    Hash <- MCHash
    Hashes <- MCHashes
    BootConfig = c1
    NoCfg = NoCfg
    NoHash = NoHash
    Environments <- SafetyEnvironments
CHECK_DEADLOCK FALSE
INVARIANTS ShutdownLeavesNothing RunningIsServing ResolverMatchesState AppliedEverywhere
PROPERTIES CommitsWhatServes DraftNeverLost

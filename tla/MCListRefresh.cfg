SPECIFICATION FairSpec

CONSTANTS
    None = None
    Callers = {"auto", "api", "ipc", "apply", "boot"}
    Lists = {"news", "base"}
    Etags <- MCEtags
    BodyOf <- MCBodyOf
    Configs <- MCConfigs
    First <- Large
    MaxRequests = 2
    MaxTrouble = 1
    MaxTimers = 2

INVARIANTS
    MetaDescribesBody
    SetsFollowCache

PROPERTIES
    CallersReturn

CHECK_DEADLOCK FALSE

SPECIFICATION FairSpec

CONSTANTS
    None = None
    Callers = {"auto", "api", "ipc", "apply", "boot"}
    Lists = {"news", "base"}
    Etags <- MCEtags
    BodyOf <- MCBodyOf
    Configs <- OnlySmall
    First <- Small
    MaxRequests = 1
    MaxTrouble = 0
    MaxTimers = 2

PROPERTY
    AutoupdateGoesOn

CHECK_DEADLOCK FALSE

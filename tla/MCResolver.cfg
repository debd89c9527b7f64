CONSTANTS
    Confs = {"A", "B"}
    Versions = {0, 1}
    MaxOps = 2
    MaxFaults = 2
    InputSize = 2
    PipeSize = 1
    MaxBytes = 1
    BatchSize = 2
    RowLength = 6
    MaxName = 4
    ListOrder <- Order
    Inputs <- AllInputs
SPECIFICATION MCSpec
INVARIANTS
    AppliedServes
    FallbackIsALifecycleDecision
    TimeoutLeavesNoProcess
    HashTellsConfiguration
    RowsCarryTheList
CHECK_DEADLOCK FALSE
PROPERTIES
    ReloadsEnd
    StatusCatchesUp

CONSTANTS
    Jobs = {1, 2}
    Workers = {w1}
    Operators = {o1}
    Operations = {"ingest"}
    JobPlans = {"none"}
    OperatorKinds = {"pause", "recover"}
    Items = 2
    BatchSize = 1
    MaxAttempts = 2
    BaseDelay = 1
    Horizon = 1
    MaxCrashes = 1
    SerialRecovery = TRUE
SPECIFICATION FairSpec
PROPERTIES
    JobSettles

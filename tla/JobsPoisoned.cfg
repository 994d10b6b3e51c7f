CONSTANTS
    Jobs = {1}
    Workers = {w1}
    Operators = {o1}
    Operations = {"ingest"}
    JobPlans = {"none"}
    OperatorKinds = {"pause", "resume", "recover"}
    Items = 2
    BatchSize = 1
    MaxAttempts = 2
    BaseDelay = 1
    Horizon = 1
    MaxCrashes = 0
    SerialRecovery = TRUE
SPECIFICATION FairSpec
PROPERTIES
    JobSettles

CONSTANTS
    Jobs = {1}
    Workers = {w1}
    Operators = {}
    Operations = {"act"}
    JobPlans = {"plan"}
    OperatorKinds = {"pause", "resume", "recover"}
    Items = 2
    BatchSize = 1
    MaxAttempts = 2
    BaseDelay = 1
    Horizon = 1
    MaxCrashes = 0
    SerialRecovery = TRUE
SPECIFICATION Spec
INVARIANTS
    ActPerformedOnce

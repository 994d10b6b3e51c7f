CONSTANTS
    Jobs = {1}
    Workers = {w1, w2}
    Operators = {o1, o2}
    Operations = {"ingest"}
    JobPlans = {"none"}
    OperatorKinds = {"pause", "resume", "recover"}
    Items = 2
    BatchSize = 1
    MaxAttempts = 2
    BaseDelay = 1
    Horizon = 1
    MaxCrashes = 2
    SerialRecovery = FALSE
SPECIFICATION Spec
SYMMETRY ProcessSymmetry
INVARIANTS
    ExclusiveExecution
    ExecutionInv
    CheckpointDurable

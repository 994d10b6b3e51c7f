CONSTANTS
    Jobs = {1}
    Workers = {w1, w2}
    Operators = {o1}
    Operations = {"ingest", "act"}
    JobPlans = {"approval_required"}
    OperatorKinds = {"bind_approval", "pause", "cancel", "resume", "recover"}
    Items = 2
    BatchSize = 1
    MaxAttempts = 2
    BaseDelay = 1
    Horizon = 2
    MaxCrashes = 1
    SerialRecovery = TRUE
SPECIFICATION Spec
SYMMETRY WorkerSymmetry
INVARIANTS
    TypeOK
    OneOpenAttempt
    AuditAgrees
    ApprovedExecution
PROPERTIES
    RecoveredFromCheckpoint
    ImplementsLeases
    TerminalAbsorbing

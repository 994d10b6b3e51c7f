SPECIFICATION Spec
CONSTANTS
    GrantIds = {g1, g2}
    OperationIds = {o1}
    Sessions = {s1, s2}
    MaxGrantDuration = 1
    DelegationHorizon = 1
    MaxDenials = 1
    TaskIds = {1, 2}
    MaxTasks = 2
    MaxRepairCycles = 2
    RepeatedFailureLimit = 2
    MaxRuns = 2
    MaxRules = 2
    PolicyHorizon = 1
    Calls = {c1, c2}
    DiscoveryBatch = 2
    MaxAttempts = 2
    MaxTreeChanges = 1
    IngestionBatch = 2
    MaxEdits = 1
    MaxIngestAttempts = 2
    Importers = {p1, p2}
    MaxPages = 2
    MaxImports = 2
    Executors = {e1, e2}
    ListCount = 3
    ProposalIds = {1, 2}
    ProposalLife = 1
    ActionHorizon = 2
    MailImporters = {i1, i2}
    MailBatch = 2
    Pipelines = {q1, q2}
    GraphBatch = 2
    MaxEmails = 4
    BackupProcesses = {b1, b2}
    MaxWrites = 2
    MailLimit = 3
    SnapshotAge = 1
    WindowDays = 1
    AdmissionHorizon = 2
    PerSourceLimit = 2
    TotalLimit = 3
INVARIANTS TypeOK DecisionsConfined DelegationAuditAgrees EscalationVisible CompletionHonest
    ExclusionsCounted IngestionBacked CountsAgree GraphCovers InspectionAccounted ManifestWhole
PROPERTIES TerminalGrantFrozen OnlyGrantsGrant RunDescends
CHECK_DEADLOCK FALSE

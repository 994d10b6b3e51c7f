CONSTANTS
    Callers = {c1, c2}
    Calls = {"tick", "retry", "mark_missed", "recover"}
    Horizon = 2
    MaxFailures = 1
    MaxCrashes = 1
SPECIFICATION FairSpec
INVARIANTS
    TypeOK
    NothingEarly
    ExclusiveRun
    OwnershipInv
    SlotsAccounted
    FrontierInv
    LastSuccessReal
PROPERTIES
    ResultStable
    ScheduleAdvances

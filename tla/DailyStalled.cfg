CONSTANTS
    Callers = {c1}
    Calls = {"tick", "retry", "mark_missed", "recover"}
    Horizon = 1
    MaxFailures = 1
    MaxCrashes = 1
SPECIFICATION FairSpec
PROPERTIES
    MissedAdvances

CONSTANTS
    Requests = {r1, r2}
    Dispatchers = {d1, d2}
    MaxRequests = 2
    MaxRetries = 1
    MaxSuccessful = 1
    MaxPreflights = 1
    Horizon = 0
    MaxCrashes = 0
SPECIFICATION Spec
SYMMETRY DispatcherSymmetry
INVARIANTS
    OneBriefPerDay

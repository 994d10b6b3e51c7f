CONSTANTS
    Requests = {r1}
    Dispatchers = {d1}
    MaxRequests = 1
    MaxRetries = 1
    MaxSuccessful = 1
    MaxPreflights = 2
    Horizon = 0
    MaxCrashes = 0
SPECIFICATION FairSpec
PROPERTIES
    ClaimReleased

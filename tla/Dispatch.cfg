CONSTANTS
    Requests = {r1}
    Dispatchers = {d1, d2}
    MaxRequests = 1
    MaxRetries = 1
    MaxSuccessful = 1
    MaxPreflights = 2
    Horizon = 1
    MaxCrashes = 1
SPECIFICATION Spec
SYMMETRY DispatcherSymmetry
INVARIANTS
    TypeOK
    TransportExclusive
    NeverReplayed
    SentIsCharged
PROPERTIES
    AnsweredFinal

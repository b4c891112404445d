SPECIFICATION EventuallySpec
CONSTANTS
    Threads = {1, 2, 3}
    Providers = {p1}
    Limits <- MCLimits
    MaxLimit = 2
    Channel = {1}
    Workers = 2
    MaxRequests = 3
CHECK_DEADLOCK FALSE
INVARIANTS
    SlotsConserved
    NoStrandedWaiter
    InFlightBounded
    NobodyStuck
PROPERTIES
    StepsInTurn
    LinksComeBack
    WorkGetsDone

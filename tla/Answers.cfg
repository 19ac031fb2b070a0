\* Two requests across the states of the breaker; two responses of one tick,
\* two loops, one of them still running when the other starts.
CONSTANTS
    Request = {r1, r2}
    WindowTicks = 1
    MinRequests = 3
    RatioNum = 1
    RatioDen = 2
    FailureThreshold = 2
    OpenTicks = 2
    HalfOpenProbes = 2
    MaxRecords = 3
    Response = {1, 2}
    SimTick = {1, 2}
    TickOf <- TwoTicks
    Loop = {l1, l2}
    Toggler = {g1}
    Timeouts = {1, 2}
    None = None
SPECIFICATION AnswersSpec
INVARIANT OnePlace
PROPERTY OpensOnFreshFailures
PROPERTY Recovers
PROPERTY InOrder
PROPERTY HeldIsWritten

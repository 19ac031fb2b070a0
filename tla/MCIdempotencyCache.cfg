\* Three keys compete for two places, so the map fills, evicts and refuses.
\* Two readers of a block ask two peers for it.
CONSTANTS
    Key = {k1, k2, k3}
    Digest = {d1, d2}
    Caller = {c1, c2}
    Cell = {x1, x2, x3}
    Ttl = 1
    Capacity = 2
    MaxClock = 2
    None = None
    NBlocks = 1
    NPeers = 2
    Reader = {r1, r2}
    PageLimit = 1
    MaxFaults = 0
SPECIFICATION FlightSpec
SYMMETRY CacheSymmetry
INVARIANT SingleFlight
INVARIANT OwnResponse
INVARIANT WithinCapacity
INVARIANT OnePull
\* The cache stops when its cells and ticks are used up, the readers when the
\* block is local.
CHECK_DEADLOCK FALSE

\* One writer, three epochs and a restart; two callers, two keys and one place
\* in the cache: waiting, panics and eviction; two blocks of a peer on
\* a page each, with one fault or change of its disk.
CONSTANTS
    Writer = {w1}
    MaxEpoch = 3
    MaxCrashes = 1
    ReopenStale = FALSE
    Key = {k1, k2}
    Digest = {d1}
    Caller = {c1, c2}
    Cell = {x1, x2, x3}
    Ttl = 1
    Capacity = 1
    MaxClock = 1
    None = None
    NBlocks = 2
    NPeers = 1
    Reader = {r1}
    PageLimit = 1
    MaxFaults = 1
SPECIFICATION NodeSpec
INVARIANT AcceptedWasWhole
 
 
PROPERTY CallsReturn
PROPERTY ReadsServed
\* The cache stops when its cells and ticks are used up, and nothing moves once
\* every block is local and a damaged blob keeps its holder silent.
CHECK_DEADLOCK FALSE

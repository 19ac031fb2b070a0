\* The live worker, rebuilds by request, crashes anywhere, a malformed row.
SPECIFICATION FairSpec
CONSTANTS
    Proc <- Live
    MaxRows = 4
    BatchSize = 2
    Malformed = {4}
    MaxCrashes = 2
    MaxRequests = 2
INVARIANT EveryRowOnce
INVARIANT OffsetBehindViews
PROPERTY OffsetsFollow

\* Two restores along the history, guarded prunes, one row or entry at a time.
SPECIFICATION FairSpec
CONSTANTS
    MaxId = 3
    MaxSnaps = 3
    PollLimit = 1
    PruneLimit = 1
    SizeRule = FALSE
    Undo = FALSE
    LateFailure = FALSE
    RebuildBeside = FALSE
 
 
 
PROPERTY PublishedOrDiscarded
PROPERTY DeadIsRemoved
CHECK_DEADLOCK FALSE

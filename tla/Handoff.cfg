\* Three nodes, two scopes: a handoff there and back, or a scope added in between.
\* No symmetry: liveness.
CONSTANTS
    Node = {n1, n2, n3}
    Chef = n1
    Scope = {s1, s2}
    World = s1
    Saga = {h1}
    MaxRevision = 3
    Serial = TRUE
    LateExecution = FALSE
SPECIFICATION FairSpec
INVARIANT AtMostOneWriter
INVARIANT NoConflict
PROPERTY RetireBeforeServe
PROPERTY RetirementHolds
PROPERTY CommitServes
PROPERTY ImplementsOwnership
PROPERTY HandoffsEnd
PROPERTY PeersConverge

\* The reply to PrepareHandoff is lost.
CONSTANTS
    Node = {n1, n2, n3}
    Chef = n1
    Scope = {s1}
    World = s1
    Saga = {h1}
    MaxRevision = 4
    Serial = TRUE
    LateExecution = FALSE
SPECIFICATION Spec
SYMMETRY HandoffSymmetry
PROPERTY AbortLeavesSource

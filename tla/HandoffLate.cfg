\* A commit that its saga gave up on runs after the next retirement.
CONSTANTS
    Node = {n1, n2, n3}
    Chef = n1
    Scope = {s1}
    World = s1
    Saga = {h1}
    MaxRevision = 4
    Serial = TRUE
    LateExecution = TRUE
SPECIFICATION Spec
SYMMETRY HandoffSymmetry
PROPERTY RetirementHolds

\* Two handoffs of one scope at a time.
CONSTANTS
    Node = {n1, n2, n3}
    Chef = n1
    Scope = {s1}
    World = s1
    Saga = {h1, h2}
    MaxRevision = 4
    Serial = FALSE
    LateExecution = FALSE
SPECIFICATION Spec
SYMMETRY HandoffSymmetry
PROPERTY RetireBeforeServe

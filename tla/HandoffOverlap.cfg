\* Two handoffs at a time, abandoned ones running late.
CONSTANTS
    Node = {n1, n2}
    Chef = n1
    Scope = {s1, s2}
    World = s1
    Saga = {h1, h2}
    MaxRevision = 3
    Serial = FALSE
    LateExecution = TRUE
SPECIFICATION Spec
SYMMETRY HandoffSymmetry
INVARIANT RevisionNamesSnapshot
 
PROPERTY AuthorityAdvances

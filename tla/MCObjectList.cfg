SPECIFICATION Spec
CONSTANTS
    Cells = {c1, c2, c3}
    Values = {v1, v2}
    NULL = NULL
SYMMETRY Symmetry
INVARIANTS
    TypeOK
    FaultOnlyHalfBuilt
    WellLinked
PROPERTY
    ImplementsCursorList
CHECK_DEADLOCK FALSE

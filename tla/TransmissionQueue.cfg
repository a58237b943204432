SPECIFICATION Spec
CONSTANTS
    Eids = {e1}
    Tags = {0, 1}
    Calls = {c1, c2, c3, c4}
    None = None
SYMMETRY Symmetry
INVARIANTS
    TypeOK
    TagsConserved
    OnlyLateResponsesStray
    NoIdleTagWithoutTimeout
PROPERTIES
    RefinesWindow
CHECK_DEADLOCK FALSE

SPECIFICATION Spec
CONSTANTS
    Eids = {e1}
    Tags = {0}
    Calls = {c1, c2, c3}
    None = None
SYMMETRY Symmetry
INVARIANT
    ReturnsOwnResponse
CHECK_DEADLOCK FALSE

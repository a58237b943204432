SPECIFICATION Spec
CONSTANTS
    Eids = {e1, e2}
    None = None
    MaxReserves = 5
INVARIANTS
    ReservationWillEnd
    NothingLeftBehind
    HeldUnlessRaced
CHECK_DEADLOCK FALSE

SPECIFICATION Spec
CONSTANTS
    Requests = {r1, r2, r3}
    First = First
    None = None
    Ops = {"poll", "refresh", "cancel"}
SYMMETRY Symmetry
INVARIANTS TypeOK NothingHalfDone ConnectionsExplained
CHECK_DEADLOCK FALSE

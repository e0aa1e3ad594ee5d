CONSTANTS
    Processes = {p1, p2, p3}
    None = None
SPECIFICATION Spec
INVARIANTS TypeOK LiveKept LocksOwned OrphansGone
CHECK_DEADLOCK FALSE

CONSTANTS
    Leases = {q1, q2}
    Amounts = {0, 1, 3}
    HardCap = 2
    SafetyReserve = 1
    None = None
    MaxCache = 1
    MinFree = 3
SPECIFICATION Spec
SYMMETRY Symmetry
CONSTRAINT Bounded
INVARIANTS TypeOK MutexHeld ChargesCover LeasesReserved
PROPERTY GrantsWithinLimit
CHECK_DEADLOCK FALSE

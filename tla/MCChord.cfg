SPECIFICATION Spec
CONSTANTS
    M_BITS = 3
    None = None
INVARIANTS
    TypeOK
    FingersNameOwners
    IntervalsTile
    HopsApproach
\* A ring is done when all its tables are computed.
CHECK_DEADLOCK FALSE

SPECIFICATION FairSpec
CONSTANTS
    Absent = Absent
    Empty = Empty
    Daemon = {d1, d2}
    Client = {c1}
    Gaps = {1, 20}
INVARIANTS
    TypeOK
    StaysAtLevelOne
PROPERTIES
    PlantsWither
\* Every command has run and the daemons are dead.
CHECK_DEADLOCK FALSE

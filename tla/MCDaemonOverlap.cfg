SPECIFICATION FairSpec
CONSTANTS
    Nil = Nil
    DSpawn = DSpawn
    Plant = {x, y}
    Proc = {p1, p2, p3}
    MaxDaemons = 1
    MaxFaults = 2
    Overlap = TRUE
    UseRespawn = TRUE
INVARIANTS
    TypeOK
    SpawnsExclusively
    NameStaysListed
PROPERTIES
    LockIsReleased
\* Every command has run, and the user need not answer.
CHECK_DEADLOCK FALSE

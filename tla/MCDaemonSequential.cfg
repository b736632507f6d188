SPECIFICATION Spec
CONSTANTS
    Nil = Nil
    DSpawn = DSpawn
    Plant = {x, y}
    Proc = {p1, p2, p3, p4, p5}
    MaxDaemons = 2
    MaxFaults = 2
    Overlap = FALSE
    UseRespawn = TRUE
SYMMETRY ProcSymmetry
INVARIANTS
    OneDaemonPerPlant
    EveryDaemonListed
    NamesDistinct
\* Every command has run, and the user need not answer.
CHECK_DEADLOCK FALSE

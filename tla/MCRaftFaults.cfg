SPECIFICATION Spec
CONSTANTS
    Nil = Nil
    Node = {n1, n2, n3}
    Command = {x}
    LogCap = 1
    Batch = 1
    OutCap = 2
    MaxTerm = 2
    MaxElections = 2
    MaxCrashes = 1
    MaxFaults = 1
    MaxInFlight = 2
    Lossy = TRUE
    UseHeartbeat = TRUE
SYMMETRY NodeSymmetry
INVARIANTS
    TypeOK
    VoteOnce
    ElectionSafety
    LeaderIsElected
    ElectionInv
    RestoreMatchesMemory
\* A behaviour ends when its budgets are spent and its messages are lost.
CHECK_DEADLOCK FALSE

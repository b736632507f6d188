SPECIFICATION Spec
CONSTANTS
    Nil = Nil
    Node = {n1, n2, n3}
    Command = {x}
    LogCap = 1
    Batch = 1
    OutCap = 2
    MaxTerm = 1
    MaxElections = 1
    MaxCrashes = 0
    MaxFaults = 0
    MaxInFlight = 4
    Lossy = FALSE
    UseHeartbeat = FALSE
INVARIANTS
    MajorityWins
\* A behaviour ends when its budgets are spent and no message is left.
CHECK_DEADLOCK FALSE

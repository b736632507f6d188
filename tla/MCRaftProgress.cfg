SPECIFICATION FairSpec
CONSTANTS
    Nil = Nil
    Node = {n1, n2}
    Command = {x}
    LogCap = 3
    Batch = 3
    OutCap = 2
    MaxTerm = 2
    MaxElections = 3
    MaxCrashes = 0
    MaxFaults = 0
    MaxInFlight = 3
    Lossy = FALSE
    UseHeartbeat = FALSE
PROPERTIES
    BacklogCommits
\* A behaviour ends when its budgets are spent and no message is left.
CHECK_DEADLOCK FALSE

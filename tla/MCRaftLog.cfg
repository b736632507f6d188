SPECIFICATION Spec
CONSTANTS
    Nil = Nil
    Node = {n1, n2, n3}
    Command = {x}
    LogCap = 2
    Batch = 2
    OutCap = 2
    MaxTerm = 2
    MaxElections = 2
    MaxCrashes = 1
    MaxFaults = 0
    MaxInFlight = 2
    Lossy = TRUE
    UseHeartbeat = FALSE
SYMMETRY NodeSymmetry
INVARIANTS
    CommitInv
    LogMatching
    LeaderCompleteness
    StateMachineSafety
    MatchIsDurable
    DurableQuorum
PROPERTIES
    CommittedPrefixStable
\* A behaviour ends when its budgets are spent and its messages are lost.
CHECK_DEADLOCK FALSE

SPECIFICATION Spec
CONSTANTS
    Nil = Nil
    Cap = 4
    HistCap = 3
    Commands <- MCCommands
    Files <- MCFiles
    Dirs <- MCFiles
    MaxTyped = 3
INVARIANTS
    TypeOK
PROPERTIES
    KeepsPrompt
    WalksByAge
\* The input may end.
CHECK_DEADLOCK FALSE

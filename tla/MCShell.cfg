SPECIFICATION FairSpec
CONSTANTS
    Nil = Nil
    Kid = {1, 2}
    Lines <- MCLines
    Names <- MCNames
    Assign <- MCAssign
    Closes <- MCCloses
    BadName <- MCBadName
    Dirs <- MCDirs
    Home <- MCHome
    Stack <- MCStack
    MaxArgs = 4
    MaxLines = 4
    MaxFails = 1
INVARIANTS
    TerminalGivenBack
    FreesItsOwn
    KeysHitPrograms
PROPERTIES
    PromptReturns
    KeepsSession
\* The shell may end.
CHECK_DEADLOCK FALSE

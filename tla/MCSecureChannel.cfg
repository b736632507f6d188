SPECIFICATION FairSpec
CONSTANTS
    Nil = Nil
    Path <- MCPath
    BaseOf <- MCBaseOf
    FileLen <- MCFileLen
    NameLen = 1
    Radix = 3
    IntBytes = 2
    KeyLen = 2
    RsaLen = 3
    CertLen = 2
    IvLen = 1
    Block = 2
    HmacLen = 1
    Chunk = 2
    SockCap = 4
    MaxFiles = 3
    MaxFaults = 2
INVARIANTS
    InStep
PROPERTIES
    KeepsTransfer
    NobodyHangs
    ClosesWhenDone
\* Both programs end.
CHECK_DEADLOCK FALSE

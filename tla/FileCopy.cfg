SPECIFICATION FairSpec
CONSTANTS
    a = a
    e = e
    x = x
    acopy = acopy
    ecopy = ecopy
    xcopy = xcopy
    acopy2 = acopy2
    NoFile = NoFile
    Names <- MCNames
    Bytes = {1, 2, 3}
    CopyOf <- MCCopyOf
    Content <- MCContent
    BLOCK_SIZE = 2
    ArgLists <- MCArgLists
    PipeCap = 2
    Modes = {TRUE, FALSE}
    MaxFaults = 3
INVARIANTS
    TypeOK
    ChildInStep
    OthersStillCopied
    StatusTellsTruth
    FifosRemoved
PROPERTY EverythingEnds
CHECK_DEADLOCK FALSE

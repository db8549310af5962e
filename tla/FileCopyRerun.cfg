SPECIFICATION Spec
CONSTANTS
    a = a
    e = e
    x = x
    acopy = acopy
    ecopy = ecopy
    xcopy = xcopy
    acopy2 = acopy2
    NoFile = NoFile
    Names <- MCNames
    Bytes = {1, 2, 3}
    CopyOf <- MCCopyOf
    Content <- MCContent
    BLOCK_SIZE = 2
    ArgLists <- RerunArgs
    PipeCap = 8
    Modes = {FALSE}
    MaxFaults = 0
INVARIANT AllCopied
CHECK_DEADLOCK FALSE

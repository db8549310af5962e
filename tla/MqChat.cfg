SPECIFICATION FairSpec
CONSTANTS
    Procs = {p1, p2, p3}
    MAX_MESSAGES = 2
    Typists = {p1}
    MaxLines = 2
    MaxFaults = 1
INVARIANTS
    PrintedInOrder
    NameHasOwner
PROPERTIES
    OwnUnlink
    PeerLeaves
CHECK_DEADLOCK FALSE

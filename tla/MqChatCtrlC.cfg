SPECIFICATION FairSpec
CONSTANTS
    Procs = {p1, p2}
    MAX_MESSAGES = 1
    Typists = {p1}
    MaxLines = 1
    MaxFaults = 1
PROPERTIES
    CtrlCEnds
CHECK_DEADLOCK FALSE

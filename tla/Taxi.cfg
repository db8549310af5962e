SPECIFICATION FairSpec
CONSTANTS
    MAX_DRIVERS = 2
    MaxForks = 3
    Durations = {0, 5}
    MaxTasks = 2
    MaxFaults = 1
INVARIANTS
    StatusFollowsDriver
    CleanExit
PROPERTIES
    CreateEnds
    OrphansEnd
CHECK_DEADLOCK FALSE

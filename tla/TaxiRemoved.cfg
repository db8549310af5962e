SPECIFICATION FairSpec
CONSTANTS
    MAX_DRIVERS = 1
    MaxForks = 1
    Durations = {5}
    MaxTasks = 1
    MaxFaults = 1
PROPERTY DeadDriverRemoved
CHECK_DEADLOCK FALSE

SPECIFICATION FairSpec
CONSTANTS
    Producer = producer
    Consumers = {c1, c2}
    SHM_SIZE = 14
    MAX_NUMBERS = 2
    MaxKills = 1
INVARIANTS
    TypeOK
    MutualExclusion
    ListSound
    ClaimedOnce
    NoSetAbandoned
    NoClaimLost
    
PROPERTIES Completion HandsOutEachSet
CHECK_DEADLOCK FALSE

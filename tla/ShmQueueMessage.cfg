SPECIFICATION Spec
CONSTANTS
    Producer = producer
    Consumers = {c1, c2}
    SHM_SIZE = 11
    MAX_NUMBERS = 2
    MaxKills = 0
INVARIANT AllProcessedMessage
CHECK_DEADLOCK FALSE

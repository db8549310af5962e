SPECIFICATION FifoSpec
CONSTANTS
    s1 = s1  s2 = s2
    Broker = broker
    Publishers = {p1, p2}
    Subscribers = {s2}
    Topics = {"news", "sport"}
    TopicOf <- MCTopicOf
    TopicsOf <- MCTopicsOf
    QueueCap = 1
    MaxLines = 2
    CtrlCTargets = {}
    MaxSignals = 0
PROPERTY ForwardCompletes
CHECK_DEADLOCK FALSE

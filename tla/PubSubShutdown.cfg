SPECIFICATION FairSpec
CONSTANTS
    s1 = s1  s2 = s2
    Broker = broker
    Publishers = {p1}
    Subscribers = {s1}
    Topics = {"news", "sport"}
    TopicOf <- MCTopicOf
    TopicsOf <- MCTopicsOf
    QueueCap = 2
    MaxLines = 2
    CtrlCTargets = {broker, p1, s1}
    MaxSignals = 2
PROPERTY EverybodyLeaves
CHECK_DEADLOCK FALSE

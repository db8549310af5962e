SPECIFICATION Spec
CONSTANTS
    s1 = s1  s2 = s2
    Broker = broker
    Publishers = {p1}
    Subscribers = {s1, s2}
    Topics = {"news", "sport"}
    TopicOf <- MCTopicOf
    TopicsOf <- MCTopicsOf
    QueueCap = 2
    MaxLines = 2
    CtrlCTargets = {broker, p1, s1, s2}
    MaxSignals = 1
INVARIANTS
    TypeOK
    InOrderOnTopic
    NoMissedMessage
    RegistrySound
CHECK_DEADLOCK FALSE

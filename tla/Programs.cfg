CONSTANTS
  Selected = {"epoll", "echo", "chat", "posix", "queue", "tree",
              "server", "turns", "lines"}
  Producers = {1, 2}
  Consumers = {1, 2}
  SegmentSets = 1
  PosixKills = 1
  EchoProcesses = {1, 2}
  EchoAddresses = {1, 2}
  EchoRuns = 2
  EchoSends = 2
  EchoFaults = 1
  TurnRuns = {1, 2}
  TurnSets = 2
  TurnFaults = 2
  FilePairs = {1, 2}
  FileLinesCount = 2
  FileRest = 2
  FileFaults = 2
  ServerClients = {1, 2, 3}
  ServerNumbers <- ThreeNumbers
  ServerList = 2
  ServerQueue = 2
  ServerSends = 3
  ServerKills = 1
  ChatConns = {1, 2, 3}
  ChatTable = 2
  ChatFile = 2
  ChatSaid = 2
  ChatUnits = 3
  EpollClients = {1, 2}
  EpollTable = 1
  EpollRoom = 5
  EpollFile = 2
  EpollRequests = 2
  QueuePriorities = 2
  QueueNodes = {1, 2, 3}
  QueueArrivals = 4
SPECIFICATION AllSpec
CHECK_DEADLOCK FALSE
INVARIANTS
  
  
  NumberedInOrder
  
  
  ClaimedByOne
  ProducerFound
  TreeKeepsContacts
  RepeatedInOrder
  TakesTurns
  LinesHandedOn
PROPERTIES
  ServesInOrder

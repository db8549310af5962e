------------------------------ MODULE Concurrent ------------------------------
(***************************************************************************)
(* The smaller programs side by side.  They share nothing: a behaviour is a *)
(* behaviour of one of them, chosen at the start, with the variables of the *)
(* others at their initial values.                                          *)
(***************************************************************************)
EXTENDS Integers, FiniteSets

CONSTANTS
    Selected,     \* the programs to check
    \* PosixSets: producers and consumers, the sets of a segment, processes killed
    Producers, Consumers, SegmentSets, PosixKills,
    \* UdpEcho: processes and addresses, clients started, lines typed, faults
    EchoProcesses, EchoAddresses, EchoRuns, EchoSends, EchoFaults,
    \* Turns: runs, sets of a run, kills and stops
    TurnRuns, TurnSets, TurnFaults,
    \* FileLines: writers and readers or pairs, lines of a writer, lines that fit the
    \* reader's array, kills and failing calls
    FilePairs, FileLinesCount, FileRest, FileFaults,
    \* QueueServer: clients and the numbers each may have, the list, the queue, what is
    \* typed, kills
    ServerClients, ServerNumbers, ServerList, ServerQueue, ServerSends, ServerKills,
    \* TcpChat: connections, the table, units of a file, what is said, its units
    ChatConns, ChatTable, ChatFile, ChatSaid, ChatUnits,
    \* EpollServer: clients, the table, the buffer, units of a file, requests
    EpollClients, EpollTable, EpollRoom, EpollFile, EpollRequests,
    \* PriorityQueue: priorities, nodes, requests
    QueuePriorities, QueueNodes, QueueArrivals

ASSUME ConcurrentAssumption ==
    /\ Producers \subseteq Nat \ {0} /\ Consumers \subseteq Nat
    /\ SegmentSets \in Nat /\ PosixKills \in Nat
    /\ EchoProcesses \subseteq Nat /\ IsFiniteSet(EchoProcesses) /\ EchoAddresses # {}
    /\ EchoRuns \in Nat /\ EchoSends \in Nat /\ EchoFaults \in Nat
    /\ TurnRuns \subseteq Nat \ {0} /\ TurnSets \in Nat /\ TurnFaults \in Nat
    /\ FilePairs \subseteq Nat \ {0} /\ FileLinesCount \in Nat \ {0}
    /\ FileRest \in Nat /\ FileFaults \in Nat
    /\ ServerClients \subseteq Nat \ {0}
    /\ ServerNumbers \in [ServerClients -> SUBSET (Int \ {10})]
    /\ ServerList \in Nat /\ ServerQueue \in Nat /\ ServerSends \in Nat /\ ServerKills \in Nat
    /\ ChatConns \subseteq Nat \ {0} /\ IsFiniteSet(ChatConns)
    /\ ChatTable \in Nat /\ ChatFile \in Nat /\ ChatSaid \in Nat /\ ChatUnits \in Nat
    /\ EpollClients \subseteq Nat /\ IsFiniteSet(EpollClients)
    /\ EpollTable \in Nat /\ EpollRoom \in Nat \ {0} /\ EpollFile \in Nat
    /\ EpollRequests \in Nat
    /\ QueuePriorities \in Nat \ {0} /\ QueueNodes \subseteq Nat \ {0}
    /\ IsFiniteSet(QueueNodes) /\ QueueArrivals \in Nat

VARIABLES
    program,
    \* EpollServer
    epUser, asked, wire, sock, edge, epDown, heard, info, stored, serving,
    \* UdpEcho
    client, clients, running, toServer, replies, runs, sends, faults, shared, uePrinted,
    \* TcpChat
    tcUser, peer, fd, up, tcDown, sbuf, sfile, cbuf, want, tcPrinted, said, pollfds,
    todo, server, dropped, mixed,
    \* PosixSets
    ppc, shm, sem, sized, value, sets, finished, cpc, cshm, csem, found, claims, clash, kills,
    \* QueueServer
    queue, msgid, qsServer, active, qsTodo, rcvbuf, qsClient, my_num, draft, qsSends,
    qsKills, qsPrinted, owed,
    \* Turns
    api, tnParent, tnChild, tnSets, seg, semC, semP, tnShm, child, parent, mem, valC, valP,
    min_max, tnShown, disturbed, tnFaults,
    \* FileLines
    task, wpc, rpc, made, flValue, named, uses, file, first, rest, written, flTaken,
    spoiled, flFaults,
    \* PriorityQueue
    heads, next, data, priority, used, arrived, taken

epVars == <<epUser, asked, wire, sock, edge, epDown, heard, info, stored, serving>>
ueVars == <<client, clients, running, toServer, replies, runs, sends, faults, shared,
            uePrinted>>
tcVars == <<tcUser, peer, fd, up, tcDown, sbuf, sfile, cbuf, want, tcPrinted, said,
            pollfds, todo, server, dropped, mixed>>
psVars == <<ppc, shm, sem, sized, value, sets, finished, cpc, cshm, csem, found,
            claims, clash, kills>>
qsVars == <<queue, msgid, qsServer, active, qsTodo, rcvbuf, qsClient, my_num, draft,
            qsSends, qsKills, qsPrinted, owed>>
tnVars == <<api, tnParent, tnChild, tnSets, seg, semC, semP, tnShm, child, parent, mem,
            valC, valP, min_max, tnShown, disturbed, tnFaults>>
flVars == <<task, wpc, rpc, made, flValue, named, uses, file, first, rest, written,
            flTaken, spoiled, flFaults>>
pqVars == <<heads, next, data, priority, used, arrived, taken>>
vars   == <<program, epVars, ueVars, tcVars, psVars, qsVars, tnVars, flVars, pqVars>>

Epoll == INSTANCE EpollServer WITH
    Clients <- EpollClients, MAX_CLIENTS <- EpollTable, Room <- EpollRoom,
    MaxFile <- EpollFile, MaxRequests <- EpollRequests, user <- epUser, down <- epDown

Echo == INSTANCE UdpEcho WITH
    Processes <- EchoProcesses, Addresses <- EchoAddresses, MaxRuns <- EchoRuns,
    MaxSends <- EchoSends, MaxFaults <- EchoFaults, printed <- uePrinted

Chat == INSTANCE TcpChat WITH
    Conns <- ChatConns, MAX_CLIENTS <- ChatTable, MaxFile <- ChatFile,
    MaxSaid <- ChatSaid, MaxUnits <- ChatUnits, user <- tcUser, down <- tcDown,
    printed <- tcPrinted

Posix == INSTANCE PosixSets WITH MaxSets <- SegmentSets, MaxKills <- PosixKills

Server == INSTANCE QueueServer WITH
    Clients <- ServerClients, Numbers <- ServerNumbers, MAX_CLIENTS <- ServerList,
    QueueCap <- ServerQueue, MaxSends <- ServerSends, MaxKills <- ServerKills,
    server <- qsServer, todo <- qsTodo, client <- qsClient, sends <- qsSends,
    kills <- qsKills, printed <- qsPrinted

Turn == INSTANCE Turns WITH
    Runs <- TurnRuns, MaxSets <- TurnSets, MaxFaults <- TurnFaults, ppc <- tnParent,
    cpc <- tnChild, sets <- tnSets, shm <- tnShm, shown <- tnShown, faults <- tnFaults

Lines == INSTANCE FileLines WITH
    Numbers <- FilePairs, LINES_COUNT <- FileLinesCount, RestSize <- FileRest,
    MaxFaults <- FileFaults, value <- flValue, taken <- flTaken, faults <- flFaults

Queue == INSTANCE PriorityQueue WITH
    MAX_PRIORITY <- QueuePriorities, Nodes <- QueueNodes, MaxArrivals <- QueueArrivals

Init == /\ program \in Selected
        /\ Epoll!Init /\ Echo!Init /\ Chat!Init /\ Posix!Init /\ Server!Init /\ Turn!Init
        /\ Lines!Init /\ Queue!Init
        /\ program # "turns" => api = "sysv"
        /\ program # "lines" => task = 8

Next ==
    /\ UNCHANGED program
    /\ \/ program = "epoll" /\ Epoll!Next
          /\ UNCHANGED <<ueVars, tcVars, psVars, qsVars, tnVars, flVars, pqVars>>
       \/ program = "echo" /\ Echo!Next
          /\ UNCHANGED <<epVars, tcVars, psVars, qsVars, tnVars, flVars, pqVars>>
       \/ program = "chat" /\ Chat!Next
          /\ UNCHANGED <<epVars, ueVars, psVars, qsVars, tnVars, flVars, pqVars>>
       \/ program = "posix" /\ Posix!Next
          /\ UNCHANGED <<epVars, ueVars, tcVars, qsVars, tnVars, flVars, pqVars>>
       \/ program = "server" /\ Server!Next
          /\ UNCHANGED <<epVars, ueVars, tcVars, psVars, tnVars, flVars, pqVars>>
       \/ program = "turns" /\ Turn!Next
          /\ UNCHANGED <<epVars, ueVars, tcVars, psVars, qsVars, flVars, pqVars>>
       \/ program = "lines" /\ Lines!Next
          /\ UNCHANGED <<epVars, ueVars, tcVars, psVars, qsVars, tnVars, pqVars>>
       \/ program = "queue" /\ Queue!Next
          /\ UNCHANGED <<epVars, ueVars, tcVars, psVars, qsVars, tnVars, flVars>>

Spec == Init /\ [][Next]_vars

-----------------------------------------------------------------------------
(* The properties of the modules *)

\* An answer is the answer to the latest request, a file is stored as sent.
AnsweredAsAsked == program = "epoll" => Epoll!AnsweredAsAsked

\* When the epoll server is quiet no client waits and no slot is lost.
NobodyLeftBehind == program = "epoll" => Epoll!NobodyLeftBehind

\* The echo server numbers the lines of each run of a client from one.
NumberedInOrder == program = "echo" => Echo!NumberedInOrder

\* The chat server's loop polls the connected clients and never waits for one.
PollsTheConnected == program = "chat" => Chat!PollsTheConnected

\* Chat lines and files arrive whole and in their sender's order.
HeardInOrder == program = "chat" => Chat!HeardInOrder

\* A set of the POSIX producer is processed by one consumer.
ClaimedByOne == program = "posix" => Posix!ClaimedByOne

\* The POSIX producer at work is the one the names lead to.
ProducerFound == program = "posix" => Posix!ProducerFound

\* A client of the queue server prints the lines of the others in order and once.
RepeatedInOrder == program = "server" => Server!RepeatedInOrder

\* A parent prints the result of the set it prints, of its own child.
TakesTurns == program = "turns" => Turn!TakesTurns

\* Lines written to the file are taken in order and once.
LinesHandedOn == program = "lines" => Lines!LinesHandedOn

\* The linked lists of the priority queue implement PriorityService.
ServesInOrder == Queue!ServesInOrder
=============================================================================

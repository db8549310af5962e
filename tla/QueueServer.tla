----------------------------- MODULE QueueServer -----------------------------
(***************************************************************************)
(* module3/task6: a chat over one System V queue.  Clients send "number:    *)
(* text" to the server (type 10), which repeats it to the other numbers on  *)
(* its list as messages of their type.  Requests and deliveries share the   *)
(* bounded queue, and both sides sleep in msgsnd when it is full.           *)
(*                                                                          *)
(* client.c lets any multiple of ten but 10 be a number.  With 0, which is  *)
(* also what atoi makes of a word, msgrcv takes whatever comes first in the *)
(* queue; with a negative number it takes what is meant for the server.     *)
(* Nothing keeps two clients from using one number.  Processes are started  *)
(* in the order of Clients.                                                 *)
(***************************************************************************)
EXTENDS Integers, FiniteSets, SequencesExt

CONSTANTS
    Clients,
    Numbers,     \* for each client, the numbers it may be started with
    MAX_CLIENTS, \* size of active_clients[]
    QueueCap,    \* messages the queue holds
    MaxSends,    \* bound on the lines and shutdowns typed
    MaxKills     \* bound on the times the server is killed and started again

VARIABLES
    queue,   \* messages: type, sending client and its text, in order
    msgid,   \* FALSE once the queue is removed
    server,  \* "up", "down" or "gone" (with the queue)
    active,  \* active_clients[0 .. active_count - 1]
    todo,    \* the rest of the list the loop of the server has to go through
    rcvbuf,  \* the message it repeats
    client,  \* each client: "new", "select", "msgsnd", "drain" or "out"
    my_num, draft, \* its number, and the text it sleeps with in msgsnd
    sends, kills,
    printed, \* history: messages each client printed
    owed     \* history: <<client, message>> it was on the list for

qsServer == <<server, active, todo, rcvbuf, kills>>
qsVars   == <<queue, msgid, qsServer, client, my_num, draft, sends, printed, owed>>

SERVER   == 10
shutdown == 0 \* a text is the number of the line typed, or this

Message(type, c, text) == [type |-> type, from |-> c, text |-> text]

Init ==
    /\ queue = <<>> /\ msgid = TRUE /\ server = "up"
    /\ active = <<>> /\ todo = <<>> /\ rcvbuf = Message(SERVER, 0, shutdown)
    /\ client = [c \in Clients |-> "new"] /\ my_num = [c \in Clients |-> SERVER]
    /\ draft = [c \in Clients |-> shutdown]
    /\ sends = 0 /\ kills = 0
    /\ printed = [c \in Clients |-> <<>>] /\ owed = {}

-----------------------------------------------------------------------------
(* System V messages *)

Room == Len(queue) < QueueCap

\* The message msgrcv takes for a given type argument, 0 for none.
Pick(type) ==
    LET fit    == {i \in DOMAIN queue :
                     \/ type > 0 /\ queue[i].type = type
                     \/ type = 0
                     \/ type < 0 /\ queue[i].type <= -type}
        best   == {i \in fit : type >= 0 \/ \A j \in fit : queue[i].type <= queue[j].type}
    IN IF ~msgid \/ fit = {} THEN 0 ELSE CHOOSE i \in best : \A j \in best : i <= j

-----------------------------------------------------------------------------
(* The client *)

Start(c) == \E n \in Numbers[c] :
    /\ client[c] = "new" /\ msgid /\ \A d \in Clients : d < c => client[d] # "new"
    /\ client' = [client EXCEPT ![c] = "select"]
    /\ my_num' = [my_num EXCEPT ![c] = n]
    /\ UNCHANGED <<queue, msgid, qsServer, draft, sends, printed, owed>>

\* send_message: sleeps while the queue is full, complains when it is gone.
\* After "shutdown" the client leaves without another look at the queue.
Send(c, text) ==
    LET sent == ~msgid \/ Room
    IN /\ queue' = IF msgid /\ Room THEN Append(queue, Message(SERVER, c, text)) ELSE queue
       /\ draft' = [draft EXCEPT ![c] = IF sent THEN shutdown ELSE text]
       /\ client' = [client EXCEPT ![c] = CASE ~sent -> "msgsnd"
                                            [] sent /\ text = shutdown -> "out"
                                            [] OTHER -> "drain"]

\* Input within the second select waits, or after msgsnd has slept.
Type(c) ==
    /\ client[c] = "select" /\ sends < MaxSends /\ sends' = sends + 1
    /\ \E text \in {shutdown, sends'} : Send(c, text)
    /\ UNCHANGED <<msgid, qsServer, my_num, printed, owed>>

Wake(c) ==
    /\ client[c] = "msgsnd" /\ (~msgid \/ Room) /\ Send(c, draft[c])
    /\ UNCHANGED <<msgid, qsServer, my_num, sends, printed, owed>>

\* select times out.
Timeout(c) ==
    /\ client[c] = "select" /\ client' = [client EXCEPT ![c] = "drain"]
    /\ UNCHANGED <<queue, msgid, qsServer, my_num, draft, sends, printed, owed>>

\* One turn of the loop around msgrcv.
Drain(c) ==
    LET i == Pick(my_num[c])
    IN /\ client[c] = "drain"
       /\ IF i = 0 THEN /\ client' = [client EXCEPT ![c] = "select"]
                        /\ UNCHANGED <<queue, printed>>
          ELSE /\ printed' = [printed EXCEPT ![c] = Append(@, queue[i])]
               /\ queue' = RemoveAt(queue, i) /\ UNCHANGED client
       /\ UNCHANGED <<msgid, qsServer, my_num, draft, sends, owed>>

\* End of input, Ctrl+C or a kill: nobody is told.
Leave(c) ==
    /\ client[c] \in {"select", "msgsnd", "drain"}
    /\ client' = [client EXCEPT ![c] = "out"]
    /\ UNCHANGED <<queue, msgid, qsServer, my_num, draft, sends, printed, owed>>

-----------------------------------------------------------------------------
(* The server *)

\* Mutant: a number is added with every message.
add_client_Again(num) ==
    IF Len(active) < MAX_CLIENTS THEN Append(active, num) ELSE active

add_client(num) ==
    IF Contains(active, num) \/ Len(active) >= MAX_CLIENTS THEN active
    ELSE Append(active, num)

remove_client(num) ==
    IF Contains(active, num) THEN RemoveFirst(active, num) ELSE active

\* msgrcv and the list; then todo is what the loop goes through.
Take ==
    LET i == Pick(SERVER)
        m == queue[i]
        n == my_num[m.from]
    IN /\ server = "up" /\ todo = <<>> /\ i # 0
       /\ queue' = RemoveAt(queue, i)
       /\ rcvbuf' = m
       /\ IF m.text = shutdown
          THEN active' = remove_client(n) /\ UNCHANGED <<todo, owed>>
          ELSE /\ active' = add_client(n)
               /\ todo' = active'
               /\ owed' = owed \union {<<c, m>> : c \in {d \in Clients :
                              client[d] # "new" /\ my_num[d] \in ToSet(todo') \ {n}}}
       /\ UNCHANGED <<msgid, server, client, my_num, draft, sends, kills, printed>>

\* One turn of the loop: the sender is passed over; msgsnd sleeps while the queue
\* is full, and fails for a number that is no message type.
Forward ==
    LET receiver == Head(todo)
    IN /\ server = "up" /\ todo # <<>> /\ todo' = Tail(todo)
       /\ IF receiver = my_num[rcvbuf.from] \/ receiver <= 0
          THEN UNCHANGED queue
          ELSE Room /\ queue' = Append(queue, Message(receiver, rcvbuf.from, rcvbuf.text))
       /\ UNCHANGED <<msgid, server, active, rcvbuf, kills, client, my_num, draft, sends,
                      printed, owed>>

\* SIGINT takes the queue away.
cleanup ==
    /\ server = "up" /\ server' = "gone" /\ msgid' = FALSE
    /\ queue' = <<>> /\ todo' = <<>>
    /\ UNCHANGED <<active, rcvbuf, kills, client, my_num, draft, sends, printed, owed>>

\* A kill leaves it, and msgget finds it again.
Kill ==
    /\ server = "up" /\ kills < MaxKills /\ kills' = kills + 1
    /\ server' = "down" /\ todo' = <<>> /\ active' = <<>>
    /\ UNCHANGED <<queue, msgid, rcvbuf, client, my_num, draft, sends, printed, owed>>

Restart ==
    /\ server = "down" /\ server' = "up"
    /\ UNCHANGED <<queue, msgid, active, todo, rcvbuf, kills, client, my_num, draft,
                   sends, printed, owed>>

Next == \/ \E c \in Clients : \/ Start(c) \/ Type(c) \/ Wake(c) \/ Timeout(c)
                              \/ Drain(c) \/ Leave(c)
        \/ Take \/ Forward \/ cleanup \/ Kill \/ Restart

Spec == Init /\ [][Next]_qsVars

-----------------------------------------------------------------------------
(* Properties *)

\* The number of c is a message type and its own.
Proper(c) == /\ my_num[c] > SERVER
             /\ \A d \in Clients \ {c} : my_num[d] # my_num[c]

\* c has printed m, will find it in the queue, or is still to be sent it.
Reached(c, m) ==
    LET Is(x) == x.from = m.from /\ x.text = m.text
    IN \/ \E i \in DOMAIN printed[c] : Is(printed[c][i])
       \/ \E i \in DOMAIN queue : queue[i].type = my_num[c] /\ Is(queue[i])
       \/ Is(rcvbuf) /\ Contains(todo, my_num[c])

\* Whatever numbers the others chose, a client with a number of its own prints
\* the lines of each sender in order, at most once, and never its own.  What is
\* sent while it is on the list reaches it, as long as the server runs and no
\* client with another kind of number takes messages away.
RepeatedInOrder == \A c \in Clients : Proper(c) =>
    /\ \A i, j \in DOMAIN printed[c] :
         LET a == printed[c][i]  b == printed[c][j]
         IN a.from # c /\ (i < j /\ a.from = b.from => a.text < b.text)
    /\ (/\ server = "up" /\ kills = 0
        /\ \A d \in Clients : client[d] # "new" => my_num[d] > 0)
         => \A x \in owed : x[1] = c /\ client[c] # "out" => Reached(c, x[2])
=============================================================================

------------------------------- MODULE UdpEcho -------------------------------
(***************************************************************************)
(* module2/cross1: an echo server and its clients over raw sockets.  The    *)
(* server keeps a list of (address, counter) and answers the n-th message   *)
(* of an address with n; "CLOSE" takes the address off the list.  A client  *)
(* sends the lines it reads and says CLOSE when it ends.                    *)
(*                                                                          *)
(* An address stands for ip and port.  Nothing stops two clients from using *)
(* the same one (9999 is the default), and a user may type CLOSE.  The      *)
(* filters on protocol, port and length leave the packets of this protocol; *)
(* headers and checksums are not checked by either side.  No client uses    *)
(* the server's own port.  Datagrams arrive in order unless a fault, of     *)
(* which there are MaxFaults, loses, repeats or delays one.                 *)
(***************************************************************************)
EXTENDS Integers, FiniteSets, SequencesExt

CONSTANTS
    Processes, Addresses,
    MaxRuns,  \* bound on the clients started
    MaxSends, \* bound on the lines typed
    MaxFaults \* bound on lost, repeated, delayed datagrams and killed clients

VARIABLES
    client,   \* [state, addr, sent]; "told" is a signal select has not seen
    clients,  \* the server's list, newest first
    running,  \* "yes", "no" (told to stop), "stopped"
    toServer, \* datagrams under way: sender's address and text
    replies,  \* replies under way: address, text and number
    runs, sends, faults,
    shared,   \* history: addresses two clients have used at once
    printed   \* history: replies a client printed

ueVars == <<client, clients, running, toServer, replies, runs, sends, faults,
            shared, printed>>

CLOSE == 0  \* a text is the index of the line since the start or a CLOSE

Up(c) == client[c].state # "gone"

Init ==
    /\ client = [c \in Processes |->
                   [state |-> "gone", addr |-> CHOOSE a \in Addresses : TRUE, sent |-> 0]]
    /\ clients = <<>> /\ running = "yes"
    /\ toServer = <<>> /\ replies = <<>>
    /\ runs = 0 /\ sends = 0 /\ faults = 0
    /\ shared = {} /\ printed = {}

-----------------------------------------------------------------------------
(* The client *)

Start(c) == \E a \in Addresses :
    /\ ~Up(c) /\ c <= runs + 1 /\ runs < MaxRuns /\ runs' = runs + 1
    /\ client' = [client EXCEPT ![c] = [state |-> "up", addr |-> a, sent |-> 0]]
    /\ shared' = IF \E d \in Processes \ {c} : Up(d) /\ client[d].addr = a
                 THEN shared \union {a} ELSE shared
    /\ UNCHANGED <<clients, running, toServer, replies, sends, faults, printed>>

\* The datagram a client makes: the headers carry its address, the rest of them
\* is not looked at.
send_packet(c, text) == <<[from |-> client[c].addr, text |-> text]>>

\* A client told to stop says CLOSE after the event that woke it.
Ending(c) == IF client[c].state = "told"
             THEN send_packet(c, CLOSE) ELSE <<>>
After(c)  == IF client[c].state = "told" THEN "gone" ELSE client[c].state

\* A line, which may be the word CLOSE.
Send(c) == \E text \in {CLOSE, client[c].sent + 1} :
    /\ Up(c) /\ sends < MaxSends /\ sends' = sends + 1
    /\ toServer' = toServer \o send_packet(c, text) \o Ending(c)
    /\ client' = [client EXCEPT ![c].sent = text, ![c].state = After(c)]
    /\ UNCHANGED <<clients, running, replies, runs, faults, shared, printed>>

\* Every client on the address gets the datagram; those told to stop say CLOSE.
Reply(c, r) == Up(c) /\ client[c].addr = r.to

Hear == LET r      == Head(replies)
            all    == {c \in Processes : Reply(c, r)}
            ending == {c \in all : client[c].state = "told"}
    IN /\ replies # <<>> /\ replies' = Tail(replies)
       /\ printed' = printed \union {<<c, r>> : c \in all}
       /\ client' = [c \in Processes |->
                       IF c \in all THEN [client[c] EXCEPT !.state = After(c)]
                       ELSE client[c]]
       /\ toServer' = toServer \o [i \in 1 .. Cardinality(ending) |->
                                     [from |-> r.to, text |-> CLOSE]]
       /\ UNCHANGED <<clients, running, runs, sends, faults, shared>>

\* The signal comes before select sleeps, and is seen at the next event.
Told(c) ==
    /\ client[c].state = "up"
    /\ client' = [client EXCEPT ![c].state = "told"]
    /\ UNCHANGED <<clients, running, toServer, replies, runs, sends, faults,
                   shared, printed>>

\* Mutant: no CLOSE at the end.
Quit_Silent(c) ==
    /\ Up(c)
    /\ client' = [client EXCEPT ![c].state = "gone"]
    /\ UNCHANGED <<clients, running, toServer, replies, runs, sends, faults,
                   shared, printed>>

\* End of input, EINTR, or any other packet after the signal.
Quit(c) ==
    /\ Up(c)
    /\ client' = [client EXCEPT ![c].state = "gone"]
    /\ toServer' = toServer \o send_packet(c, CLOSE)
    /\ UNCHANGED <<clients, running, replies, runs, sends, faults, shared, printed>>

-----------------------------------------------------------------------------
(* The server *)

Known(a) == {k \in DOMAIN clients : clients[k].addr = a}

\* The first entry of a known address.
find_client(a) == CHOOSE k \in Known(a) : \A j \in Known(a) : k <= j

add_client(a) == <<[addr |-> a, counter |-> 1]>> \o clients

remove_client(a) ==
    IF Known(a) = {} THEN clients ELSE RemoveAt(clients, find_client(a))

\* One turn of main's loop: process_packet, then the test of running.
process_packet ==
    LET d == Head(toServer)
        k == find_client(d.from)
        n == IF Known(d.from) = {} THEN 1 ELSE clients[k].counter + 1
    IN /\ running # "stopped" /\ toServer # <<>> /\ toServer' = Tail(toServer)
       /\ running' = IF running = "no" THEN "stopped" ELSE running
       /\ IF d.text = CLOSE
          THEN clients' = remove_client(d.from) /\ UNCHANGED replies
          ELSE /\ clients' = IF Known(d.from) = {} THEN add_client(d.from)
                             ELSE [clients EXCEPT ![k].counter = n]
               /\ replies' = Append(replies, [to |-> d.from, text |-> d.text, number |-> n])
       /\ UNCHANGED <<client, runs, sends, faults, shared, printed>>

\* recvfrom is restarted after the signal: any packet ends it.
handle_signal ==
    /\ \/ running = "yes" /\ running' = "no"
       \/ running = "no" /\ running' = "stopped"
    /\ UNCHANGED <<client, clients, toServer, replies, runs, sends, faults,
                   shared, printed>>

-----------------------------------------------------------------------------
(* Faults *)

Fault == /\ faults < MaxFaults /\ faults' = faults + 1
         /\ UNCHANGED <<clients, running, runs, sends, shared, printed>>

Lose == Fault /\ UNCHANGED client /\
    \/ \E i \in DOMAIN toServer : toServer' = RemoveAt(toServer, i) /\ UNCHANGED replies
    \/ \E i \in DOMAIN replies : replies' = RemoveAt(replies, i) /\ UNCHANGED toServer

Repeat == Fault /\ UNCHANGED <<client, replies>> /\
    \E i \in DOMAIN toServer : toServer' = Append(toServer, toServer[i])

Delay == Fault /\ UNCHANGED <<client, replies>> /\
    \E i \in DOMAIN toServer : toServer' = Append(RemoveAt(toServer, i), toServer[i])

Kill(c) == Fault /\ UNCHANGED <<toServer, replies>> /\ Up(c)
           /\ client' = [client EXCEPT ![c].state = "gone"]

Next == \/ \E c \in Processes : Start(c) \/ Send(c) \/ Told(c) \/ Quit(c) \/ Kill(c)
        \/ Hear \/ process_packet \/ handle_signal \/ Lose \/ Repeat \/ Delay

Spec == Init /\ [][Next]_ueVars

-----------------------------------------------------------------------------
(* Properties *)

\* Without faults every client that has its address to itself reads the number
\* its line has since it started or last typed CLOSE: no count is carried over
\* from an earlier run, mixed up with another address or shifted by a signal.
\* With faults an address is still listed once, and its counter is no larger
\* than the lines and repetitions there were.
NumberedInOrder ==
    /\ faults = 0 => \A p \in printed : p[2].to \notin shared => p[2].number = p[2].text
    /\ \A i, j \in DOMAIN clients : clients[i].addr = clients[j].addr => i = j
    /\ \A i \in DOMAIN clients : clients[i].counter <= sends + faults
=============================================================================

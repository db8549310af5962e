----------------------------- MODULE EpollServer -----------------------------
(***************************************************************************)
(* module3/task15: a TCP server that answers lines of arithmetic and takes  *)
(* files, and its client.  The server keeps a parser state per connection   *)
(* and reads once per edge of a non-blocking epoll descriptor; the client   *)
(* sends one request and waits for one answer.                              *)
(*                                                                          *)
(* A stream is a sequence of units: the text of a command, the newline, the *)
(* two halves of a file's size, the pieces of its data.  TCP cuts a stream  *)
(* between any two units.  An answer that does not fit the ten bytes        *)
(* send_file reads it into is two units.  The data of a file never spell a  *)
(* command; client.c never sends "exit" (it closes), so that branch of the  *)
(* parser is not reached.                                                   *)
(***************************************************************************)
EXTENDS Integers, FiniteSets, SequencesExt

CONSTANTS
    Clients,
    MAX_CLIENTS, \* size of clients[]
    Room,        \* sizeof(buffer) - 1, in units
    MaxFile,     \* bound on the units of a file
    MaxRequests  \* bound on the requests of all clients together

VARIABLES
    user,    \* what each client does: "away", "prompt", "wait" or "gone"
    asked,   \* the requests of each client, in order
    wire,    \* units sent that the server's host has not got yet
    sock,    \* units in the server's socket
    edge,    \* connections epoll will report
    down,    \* answers on their way back, as <<request, answer>>
    heard,   \* history: <<request waited for, what recv returned>>
    info,    \* clients[]: parser state of each connection
    stored,  \* history: what was written for each request of each client
    serving  \* FALSE after the server aborted

epVars == <<user, asked, wire, sock, edge, down, heard, info, stored, serving>>

\* A file the server cannot open (its name has a directory in it) is read as
\* commands, so it matters whether its last piece ends in a newline.
Requests == [kind : {"calc"}, size : {0}, opens : {TRUE}, line : {FALSE}]
            \union [kind : {"file"}, size : 0 .. MaxFile, opens : {TRUE}, line : {FALSE}]
            \union [kind : {"file"}, size : 0 .. MaxFile, opens : {FALSE}, line : BOOLEAN]

Unit(k, n, nl) == [k |-> k, n |-> n, nl |-> nl]
Data(r, n)     == [i \in 1 .. r.size |-> Unit("data", <<n, i>>, r.line /\ i = r.size)]
Fin            == Unit("fin", <<0, 0>>, FALSE)

\* What main and send_file send for the n-th request of a client.
Stream(r, n) ==
    <<Unit("text", <<n, 0>>, FALSE), Unit("nl", <<n, 0>>, TRUE)>> \o
    (IF r.kind = "calc" THEN <<>>
     ELSE <<Unit("size", <<n, 0>>, FALSE), Unit("size", <<n, 1>>, FALSE)>>
          \o Data(r, n))

Closed == [fd |-> "closed", state |-> "IDLE", file |-> 0, received |-> 0,
           output |-> "none", buffer |-> <<>>]

Init ==
    /\ user = [c \in Clients |-> "away"] /\ asked = [c \in Clients |-> <<>>]
    /\ wire = [c \in Clients |-> <<>>] /\ sock = [c \in Clients |-> <<>>]
    /\ edge = {} /\ down = [c \in Clients |-> <<>>]
    /\ heard = [c \in Clients |-> <<>>]
    /\ info = [c \in Clients |-> Closed]
    /\ stored = [c \in Clients |-> <<>>] /\ serving = TRUE

Connected == {c \in Clients : info[c].fd = "open"}

-----------------------------------------------------------------------------
(* The client *)

Connect(c) ==
    /\ user[c] = "away" /\ \A d \in Clients : d < c => user[d] # "away"
    /\ serving /\ info[c].fd = "closed"
    /\ user' = [user EXCEPT ![c] = "prompt"]
    /\ info' = [info EXCEPT ![c].fd = "backlog"]
    /\ UNCHANGED <<asked, wire, sock, edge, down, heard, stored, serving>>

Ask(c) == \E r \in Requests :
    LET total == FoldFunction(LAMBDA s, k : Len(s) + k, 0, asked)
    IN /\ user[c] = "prompt" /\ total < MaxRequests
       /\ asked' = [asked EXCEPT ![c] = Append(@, r)]
       /\ wire' = [wire EXCEPT ![c] =
                     IF info[c].fd = "closed" THEN <<>>
                     ELSE @ \o Stream(r, Len(asked[c]) + 1)]
       /\ user' = [user EXCEPT ![c] = "wait"]
       /\ stored' = [stored EXCEPT ![c] = Append(@, <<>>)]
       /\ UNCHANGED <<sock, edge, down, heard, info, serving>>

\* Segments arrive: any part of what was sent, and an edge with it.
Deliver(c) == \E k \in 1 .. Len(wire[c]) :
    /\ sock' = [sock EXCEPT ![c] = @ \o SubSeq(wire[c], 1, k)]
    /\ wire' = [wire EXCEPT ![c] = SubSeq(@, k + 1, Len(@))]
    /\ edge' = edge \union {c}
    /\ UNCHANGED <<user, asked, down, heard, info, stored, serving>>

\* send_file reads one unit, main all there are.
Hear(c) ==
    LET n == Len(asked[c])
        k == IF asked[c][n].kind = "file" THEN 1 ELSE Len(down[c])
    IN /\ user[c] = "wait" /\ down[c] # <<>>
       /\ heard' = [heard EXCEPT ![c] = Append(@, <<n, SubSeq(down[c], 1, k)>>)]
       /\ down' = [down EXCEPT ![c] = SubSeq(@, k + 1, Len(@))]
       /\ user' = [user EXCEPT ![c] = "prompt"]
       /\ UNCHANGED <<asked, wire, sock, edge, info, stored, serving>>

\* The server closed the connection: recv fails, or send raises SIGPIPE.
HearClose(c) ==
    /\ user[c] = "wait" /\ info[c].fd = "closed" /\ down[c] = <<>>
    /\ \E u \in {"prompt", "gone"} : user' = [user EXCEPT ![c] = u]
    /\ UNCHANGED <<asked, wire, sock, edge, down, heard, info, stored, serving>>

\* "exit" or end of input: the FIN follows what was sent.
Leave(c) ==
    /\ user[c] = "prompt"
    /\ user' = [user EXCEPT ![c] = "gone"]
    /\ wire' = [wire EXCEPT ![c] = IF info[c].fd = "closed" THEN <<>> ELSE Append(@, Fin)]
    /\ UNCHANGED <<asked, sock, edge, down, heard, info, stored, serving>>

-----------------------------------------------------------------------------
(* The server's parser *)

\* The state of process_client's loop: the clients[] entry, the rest of its
\* buffer, the answers sent and the files written.
Loop(e, files) == [e |-> e, out |-> <<>>, files |-> files]

Long(n) == <<<<n, "answer">>, <<n, "answer">>>>

\* Mutant: whatever has arrived is a line.
TakeLine_Part(s, rs) ==
    LET b == s.e.buffer
        n == b[1].n[1]
        e == [s.e EXCEPT !.buffer = <<>>]
    IN CASE b[1].k = "text" /\ rs[n].kind = "file" ->
              [s EXCEPT !.e = [e EXCEPT !.state = "SIZE", !.file = n, !.received = 0]]
         [] b[1].k = "text" /\ rs[n].kind = "calc" ->
              [s EXCEPT !.e = e, !.out = @ \o Long(n)]
         [] OTHER -> [s EXCEPT !.e = e, !.out = @ \o Long(0)]

\* STATE_IDLE: a whole line, or wait for the rest of it.
TakeLine(s, rs) ==
    LET b  == s.e.buffer
        nl == {i \in DOMAIN b : b[i].nl}
        k  == CHOOSE i \in nl : \A j \in nl : i <= j
        n  == b[1].n[1]
        e  == [s.e EXCEPT !.buffer = SubSeq(b, k + 1, Len(b))]
    IN CASE nl = {} -> s
         [] nl # {} /\ b[1].k = "text" /\ rs[n].kind = "file" ->
              [s EXCEPT !.e = [e EXCEPT !.state = "SIZE", !.file = n, !.received = 0]]
         [] nl # {} /\ b[1].k = "text" /\ rs[n].kind = "calc" ->
              [s EXCEPT !.e = e, !.out = @ \o Long(n)]
         [] OTHER -> [s EXCEPT !.e = e, !.out = @ \o Long(0)]

\* STATE_RECV_FILE_SIZE: eight bytes, then fopen.
TakeSize(s, rs) ==
    LET b    == s.e.buffer
        need == 2 - s.e.received
        e    == [s.e EXCEPT !.buffer = SubSeq(b, need + 1, Len(b)), !.received = 0]
    IN CASE Len(b) < need ->
              [s EXCEPT !.e.received = @ + Len(b), !.e.buffer = <<>>]
         [] Len(b) >= need /\ rs[e.file].opens ->
              [s EXCEPT !.e = [e EXCEPT !.state = "DATA", !.output = "open"]]
         [] OTHER ->
              [s EXCEPT !.e = [e EXCEPT !.state = "IDLE", !.output = "none"],
                        !.out = Append(@, <<e.file, "ERR">>)]

\* Mutant: the file is not taken to be complete at its last byte.
TakeData_Late(s, rs) ==
    LET b    == s.e.buffer
        need == rs[s.e.file].size - s.e.received
        k    == IF Len(b) < need THEN Len(b) ELSE need
        e    == [s.e EXCEPT !.buffer = SubSeq(b, k + 1, Len(b)), !.received = @ + k]
        w    == [s EXCEPT !.files[s.e.file] = @ \o SubSeq(b, 1, k)]
    IN IF need > 0 THEN [w EXCEPT !.e = e]
       ELSE [w EXCEPT !.e = [e EXCEPT !.state = "IDLE", !.output = "closed"],
                      !.out = Append(@, <<s.e.file, "OK">>)]

\* STATE_RECV_FILE_DATA: write what there is, close after the last byte.
\* output_file keeps pointing to the closed file.
TakeData(s, rs) ==
    LET b    == s.e.buffer
        need == rs[s.e.file].size - s.e.received
        k    == IF Len(b) < need THEN Len(b) ELSE need
        e    == [s.e EXCEPT !.buffer = SubSeq(b, k + 1, Len(b)), !.received = @ + k]
        w    == [s EXCEPT !.files[s.e.file] = @ \o SubSeq(b, 1, k)]
    IN IF k < need THEN [w EXCEPT !.e = e]
       ELSE [w EXCEPT !.e = [e EXCEPT !.state = "IDLE", !.output = "closed"],
                      !.out = Append(@, <<s.e.file, "OK">>)]

Turn(s, rs) == CASE s.e.buffer = <<>>   -> s
                 [] s.e.buffer # <<>> /\ s.e.state = "IDLE" -> TakeLine(s, rs)
                 [] s.e.buffer # <<>> /\ s.e.state = "SIZE" -> TakeSize(s, rs)
                 [] s.e.buffer # <<>> /\ s.e.state = "DATA" -> TakeData(s, rs)

\* while (remaining > 0): every unit takes at most two turns.
process_client(e, rs, files) ==
    LET turns[i \in 0 .. 2 * Len(e.buffer)] ==
          IF i = 0 THEN Loop(e, files) ELSE Turn(turns[i - 1], rs)
    IN turns[2 * Len(e.buffer)]

-----------------------------------------------------------------------------
(* The server's loop *)

\* accept: a slot of clients[], or the connection is closed at once.
Accept(c) ==
    /\ serving /\ info[c].fd = "backlog"
    /\ IF Cardinality(Connected) < MAX_CLIENTS
       THEN /\ info' = [info EXCEPT ![c] = [Closed EXCEPT !.fd = "open"]]
            /\ UNCHANGED <<wire, sock, edge>>
       ELSE /\ info' = [info EXCEPT ![c] = Closed]
            /\ wire' = [wire EXCEPT ![c] = <<>>] /\ sock' = [sock EXCEPT ![c] = <<>>]
            /\ edge' = edge \ {c}
    /\ UNCHANGED <<user, asked, down, heard, stored, serving>>

\* What one recv would return: nothing at the end of the stream, nothing either
\* when the buffer has no room left.
Received(c) ==
    LET n    == Len(sock[c])
        data == IF n > 0 /\ sock[c][n] = Fin THEN n - 1 ELSE n
        left == Room - Len(info[c].buffer)
    IN SubSeq(sock[c], 1, IF data < left THEN data ELSE left)

Readable(c) == serving /\ c \in edge /\ c \in Connected

\* Data from a client: one recv for the edge, whatever stays in the socket.
Receive(c) ==
    LET p == process_client([info[c] EXCEPT !.buffer = @ \o Received(c)], asked[c], stored[c])
    IN /\ Readable(c) /\ Received(c) # <<>>
       /\ edge' = edge \ {c}
       /\ sock' = [sock EXCEPT ![c] = SubSeq(@, Len(Received(c)) + 1, Len(@))]
       /\ info' = [info EXCEPT ![c] = p.e]
       /\ down' = [down EXCEPT ![c] = IF user[c] = "gone" THEN <<>> ELSE @ \o p.out]
       /\ stored' = [stored EXCEPT ![c] = p.files]
       /\ UNCHANGED <<user, asked, wire, heard, serving>>

\* recv returned 0.  A file that was closed before is closed again, which may
\* abort the process and end every connection.
Disconnect(c) ==
    /\ Readable(c) /\ Received(c) = <<>>
    /\ \E abort \in {FALSE, info[c].output = "closed"} :
         LET ended == IF abort THEN Clients ELSE {c}
             Cut(f, v) == [d \in Clients |-> IF d \in ended THEN v ELSE f[d]]
         IN /\ serving' = ~abort
            /\ info' = Cut(info, Closed)
            /\ wire' = Cut(wire, <<>>) /\ sock' = Cut(sock, <<>>)
            /\ edge' = edge \ ended
    /\ UNCHANGED <<user, asked, down, heard, stored>>

Step(c) == \/ Connect(c) \/ Ask(c) \/ Deliver(c) \/ Hear(c) \/ HearClose(c)
           \/ Leave(c) \/ Accept(c) \/ Receive(c) \/ Disconnect(c)

Next == \E c \in Clients : Step(c)

Spec == Init /\ [][Next]_epVars

-----------------------------------------------------------------------------
(* Properties *)

\* The client has asked for a file the server could not open.
Refused(c) == \E n \in DOMAIN asked[c] : ~asked[c][n].opens

\* What a client reads is the answer to its latest request, and a file it was
\* told "OK" about is stored as it was sent, wherever TCP cut the stream; until
\* a file cannot be opened, whose data the parser then takes for commands.
AnsweredAsAsked == \A c \in Clients :
    ~Refused(c) => \A i \in DOMAIN heard[c] :
        LET n == heard[c][i][1]
            r == asked[c][n]
        IN IF r.kind = "calc" THEN heard[c][i][2] = Long(n)
           ELSE /\ heard[c][i][2] = <<<<n, "OK">>>>
                /\ stored[c][n] = Data(r, n)

\* Everything sent has arrived and been reported, and nothing is on its way back.
Quiet(c) == /\ serving /\ c \in Connected
            /\ c \notin edge /\ wire[c] = <<>> /\ down[c] = <<>>

\* When all is quiet no client waits for an answer and no slot of clients[] is
\* kept for a client that left, except after: a file that could not be opened;
\* an empty file (its "OK" is sent when the next byte comes); a request larger
\* than the buffer (one recv per edge leaves the rest in the socket).
NobodyLeftBehind == \A c \in Clients :
    Quiet(c) /\ user[c] \in {"wait", "gone"} =>
        \/ Refused(c)
        \/ \E n \in DOMAIN asked[c] :
              \/ asked[c][n].kind = "file" /\ asked[c][n].size = 0
              \/ Len(Stream(asked[c][n], n)) > Room
=============================================================================

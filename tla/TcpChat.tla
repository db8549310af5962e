------------------------------- MODULE TcpChat -------------------------------
(***************************************************************************)
(* module1/task7: a chat server that repeats lines and files to all other   *)
(* clients from a poll loop, and its client.                                *)
(*                                                                          *)
(* A connection is one run of the client.  A stream is a sequence of units: *)
(* the text of a line, its newline, the pieces of a file; read returns any  *)
(* part that has arrived.  The sockets block.  What a send to a client that *)
(* has gone does depends on how it went: after a FIN the first send is      *)
(* answered by a reset and the next one raises SIGPIPE; after a reset in    *)
(* reply to unread data send fails once.  Nicknames stand for themselves,   *)
(* and lines fit the buffers.                                               *)
(***************************************************************************)
EXTENDS Integers, FiniteSets, SequencesExt

CONSTANTS
    Conns,       \* connections, 1 .. n in the order they are made
    MAX_CLIENTS, \* size of clients[]
    MaxFile,     \* bound on the units of a file
    MaxSaid,     \* bound on the lines and files sent
    MaxUnits     \* bound on lines and pieces of files together

VARIABLES
    user,    \* each client: "new", "in" or "out"
    peer,    \* what the server's socket knows of the other end
    fd,      \* the server's descriptor, 0 when not in clients[]
    up, down,\* the two directions of each connection
    sbuf, sfile, \* the server's buffer and file_size - file_received
    cbuf, want,  \* the client's buffer and size - received
    printed, \* history: units of lines and files each client took
    said,    \* history: what was sent, in order
    pollfds, \* pollfds[1 ..]: descriptors, 0 for a cleared entry
    todo,    \* entries of pollfds with an event that the round has still to serve
    server,  \* "poll", "round" or "down"
    dropped, \* history: a broadcast removed a client
    mixed    \* history: something else was under way during a file

people  == <<user, said, mixed>>
streams == <<up, down>>
readers == <<cbuf, want, printed>>
tables  == <<peer, fd, sbuf, sfile>>
tcVars  == <<people, streams, readers, tables, pollfds, todo, server, dropped>>

NL        == [k |-> "nl", n |-> 0, i |-> 0]
Text(n)   == [k |-> "text", n |-> n, i |-> 0]
Piece(n, i) == [k |-> "data", n |-> n, i |-> i]

\* What a client sends and the server repeats for the n-th thing said.
Stream(n, size) == <<Text(n), NL>> \o [i \in 1 .. size |-> Piece(n, i)]
Greeting        == <<NL>>  \* NICK, repeated to nobody

Init ==
    /\ user = [c \in Conns |-> "new"] /\ peer = [c \in Conns |-> "none"]
    /\ fd = [c \in Conns |-> 0]
    /\ up = [c \in Conns |-> <<>>] /\ down = [c \in Conns |-> <<>>]
    /\ sbuf = [c \in Conns |-> <<>>] /\ sfile = [c \in Conns |-> 0]
    /\ cbuf = [c \in Conns |-> <<>>] /\ want = [c \in Conns |-> 0]
    /\ printed = [c \in Conns |-> <<>>] /\ said = <<>>
    /\ pollfds = <<>> /\ todo = {} /\ server = "poll"
    /\ dropped = FALSE /\ mixed = FALSE

Listed == {c \in Conns : fd[c] # 0}

\* A file has been sent and not every client is done with it.
Settled == \A c \in Conns : /\ up[c] = <<>> /\ sbuf[c] = <<>>
                            /\ user[c] = "in" => down[c] = <<>> /\ cbuf[c] = <<>>
FilePending == ~Settled /\ \E n \in DOMAIN said : said[n].size > 0

-----------------------------------------------------------------------------
(* The client *)

\* connect, then NICK.
Join(c) ==
    /\ user[c] = "new" /\ server # "down" /\ \A d \in Conns : d < c => user[d] # "new"
    /\ user' = [user EXCEPT ![c] = "in"]
    /\ peer' = [peer EXCEPT ![c] = "backlog"]
    /\ up' = [up EXCEPT ![c] = Greeting]
    /\ UNCHANGED <<said, mixed, down, readers, fd, sbuf, sfile, pollfds, todo,
                   server, dropped>>

\* A line, or send_file; not while a file is being received, and with the
\* connection closed it is the client's end.
Say(c) == \E size \in 0 .. MaxFile :
    /\ user[c] = "in" /\ peer[c] # "closed" /\ want[c] = 0
    /\ Len(said) < MaxSaid
    /\ FoldLeft(LAMBDA u, s : u + 1 + s.size, 1 + size, said) <= MaxUnits
    /\ said' = Append(said, [by |-> c, size |-> size])
    /\ up' = [up EXCEPT ![c] = @ \o Stream(Len(said'), size)]
    /\ mixed' = (mixed \/ FilePending \/ (size > 0 /\ ~Settled))
    /\ UNCHANGED <<user, down, readers, tables, pollfds, todo, server, dropped>>

\* One command of the client's buffer b, whose newline is at k.  The end of the
\* loop drops k units more, also of what followed a whole file.
ClientCommand(b, k, size) ==
    LET rest  == SubSeq(b, k + 1, Len(b))
        taken == IF Len(rest) < size THEN Len(rest) ELSE size
        left  == SubSeq(rest, taken + 1, Len(rest))
    IN [buf  |-> IF size = 0 THEN rest ELSE SubSeq(left, k + 1, Len(left)),
        want |-> size - taken,
        took |-> SubSeq(b, 1, k - 1) \o SubSeq(rest, 1, taken)]

\* The loop over the buffer: stops without a newline or inside a file.
ClientParse(b, opens) ==
    LET Turn(s) ==
          LET nl == {i \in DOMAIN s.buf : s.buf[i] = NL}
              k  == CHOOSE i \in nl : \A j \in nl : i <= j
              n  == s.buf[1].n
              r  == ClientCommand(s.buf, k, IF opens /\ s.buf[1].k = "text" /\ n > 0
                                            THEN said[n].size ELSE 0)
          IN IF nl = {} \/ s.want > 0 THEN s ELSE [r EXCEPT !.took = s.took \o r.took]
    IN FoldLeft(LAMBDA s, u : Turn(s), [buf |-> b, want |-> 0, took |-> <<>>], b)

\* main's read and loop; fopen may fail, and then data are read as commands.
Listen(c) == \E k \in 1 .. Len(down[c]), opens \in {TRUE, \A n \in DOMAIN said : said[n].size = 0} :
    LET r == ClientParse(cbuf[c] \o SubSeq(down[c], 1, k), opens)
    IN /\ user[c] = "in" /\ want[c] = 0
       /\ down' = [down EXCEPT ![c] = SubSeq(@, k + 1, Len(@))]
       /\ cbuf' = [cbuf EXCEPT ![c] = r.buf]
       /\ want' = [want EXCEPT ![c] = r.want]
       /\ printed' = [printed EXCEPT ![c] = @ \o r.took]
       /\ mixed' = (mixed \/ (~opens /\ \E n \in DOMAIN said : said[n].size > 0))
       /\ UNCHANGED <<user, said, up, tables, pollfds, todo, server, dropped>>

\* The inner read loop of a file: what is read beyond its end is dropped.
ListenFile(c) == \E k \in 1 .. Len(down[c]) :
    LET taken == IF k < want[c] THEN k ELSE want[c]
    IN /\ user[c] = "in" /\ want[c] > 0
       /\ down' = [down EXCEPT ![c] = SubSeq(@, k + 1, Len(@))]
       /\ want' = [want EXCEPT ![c] = @ - taken]
       /\ printed' = [printed EXCEPT ![c] = @ \o SubSeq(down[c], 1, taken)]
       /\ UNCHANGED <<people, up, cbuf, tables, pollfds, todo, server, dropped>>

\* End of input, Ctrl+C, or the server's end of file: a close with unread data
\* is a reset.
Leave(c) ==
    /\ user[c] = "in"
    /\ user' = [user EXCEPT ![c] = "out"]
    /\ peer' = IF peer[c] # "open" THEN peer
               ELSE [peer EXCEPT ![c] = IF down[c] = <<>> THEN "fin" ELSE "rst"]
    /\ down' = [down EXCEPT ![c] = <<>>]
    /\ UNCHANGED <<said, mixed, up, readers, fd, sbuf, sfile, pollfds, todo,
                   server, dropped>>

-----------------------------------------------------------------------------
(* The server *)

\* Mutant: what follows a line in the buffer is sent with it.
ServerTurn_All(s) ==
    LET nl    == {i \in DOMAIN s.buf : s.buf[i] = NL}
        k     == CHOOSE i \in nl : \A j \in nl : i <= j
        n     == s.buf[1].n
        taken == IF s.file < Len(s.buf) THEN s.file ELSE Len(s.buf)
    IN IF s.buf = <<>> THEN s
       ELSE IF s.file > 0
       THEN [buf  |-> SubSeq(s.buf, taken + 1, Len(s.buf)),
             file |-> s.file - taken,
             out  |-> Append(s.out, SubSeq(s.buf, 1, taken))]
       ELSE IF nl = {} THEN s
       ELSE [buf  |-> SubSeq(s.buf, k + 1, Len(s.buf)),
             file |-> IF n > 0 THEN said[n].size ELSE 0,
             out  |-> IF n > 0 THEN Append(s.out, s.buf) ELSE s.out]

\* process_client's loop: what is broadcast, send by send, and what stays.
ServerTurn(s) ==
    LET nl    == {i \in DOMAIN s.buf : s.buf[i] = NL}
        k     == CHOOSE i \in nl : \A j \in nl : i <= j
        n     == s.buf[1].n
        taken == IF s.file < Len(s.buf) THEN s.file ELSE Len(s.buf)
    IN IF s.buf = <<>> THEN s
       ELSE IF s.file > 0
       THEN [buf  |-> SubSeq(s.buf, taken + 1, Len(s.buf)),
             file |-> s.file - taken,
             out  |-> Append(s.out, SubSeq(s.buf, 1, taken))]
       ELSE IF nl = {} THEN s
       ELSE [buf  |-> SubSeq(s.buf, k + 1, Len(s.buf)),
             file |-> IF n > 0 THEN said[n].size ELSE 0,
             out  |-> IF n > 0 THEN Append(s.out, SubSeq(s.buf, 1, k)) ELSE s.out]

ServerParse(b, file) ==
    FoldLeft(LAMBDA s, i : ServerTurn(s), [buf |-> b, file |-> file, out |-> <<>>], b)

\* Every connection ends with the server.
Shutdown ==
    /\ server' = "down" /\ todo' = {}
    /\ peer' = [c \in Conns |-> IF peer[c] = "none" THEN "none" ELSE "closed"]
    /\ fd' = [c \in Conns |-> 0] /\ up' = [c \in Conns |-> <<>>]
    /\ sbuf' = [c \in Conns |-> <<>>]

\* poll finds data, an end of file or a reset.
Pending(c) == up[c] # <<>> \/ peer[c] # "open"

\* poll returns; then one accept, in the first free slot.  The revents of the
\* new entry of pollfds are whatever the array held.
Round ==
    LET ready    == {i \in DOMAIN pollfds : \E c \in Listed :
                        fd[c] = pollfds[i] /\ Pending(c)}
        waiting  == {c \in Conns : peer[c] = "backlog"}
        c        == CHOOSE d \in waiting : \A e \in waiting : d <= e
        free     == 1 .. Cardinality(Conns) \ {fd[d] : d \in Conns}
        lowest   == CHOOSE f \in free : \A g \in free : f <= g
    IN /\ server = "poll" /\ server' = "round"
       /\ \/ waiting = {} /\ ready # {} /\ todo' = ready
             /\ UNCHANGED <<peer, fd, pollfds, up, mixed>>
          \/ waiting # {} /\ Cardinality(Listed) = MAX_CLIENTS
             /\ todo' = ready /\ peer' = [peer EXCEPT ![c] = "closed"]
             /\ up' = [up EXCEPT ![c] = <<>>]
             /\ UNCHANGED <<fd, pollfds, mixed>>
          \/ waiting # {} /\ Cardinality(Listed) < MAX_CLIENTS
             /\ fd' = [fd EXCEPT ![c] = lowest]
             /\ peer' = [peer EXCEPT ![c] = IF user[c] = "out" THEN "fin" ELSE "open"]
             /\ pollfds' = Append(pollfds, lowest)
             /\ todo' \in {ready, ready \union {Len(pollfds')}}
             /\ mixed' = (mixed \/ FilePending)
             /\ UNCHANGED up
       /\ UNCHANGED <<user, said, down, readers, sbuf, sfile, dropped>>

\* The entry the loop over pollfds comes to next.
Current == CHOOSE i \in todo : \A j \in todo : i <= j

\* broadcast_message for each command p found in the k units read.
Broadcast(c, k, p) ==
    LET targets == IF p.out = <<>> THEN {} ELSE Listed \ {c}
        gone    == {d \in targets : peer[d] = "rst"}
        fins    == {d \in targets : peer[d] = "fin"}
    IN \E lateReset \in {FALSE, fins # {}} :
         /\ IF \E d \in targets : \/ peer[d] = "rst_fin"
                                  \/ d \in fins /\ Len(p.out) > 1 /\ ~lateReset
            THEN Shutdown /\ UNCHANGED <<down, dropped>>
            ELSE /\ up' = [up EXCEPT ![c] = SubSeq(@, k + 1, Len(@))]
                 /\ down' = [d \in Conns |-> IF d \in targets /\ peer[d] = "open"
                                             THEN down[d] \o FlattenSeq(p.out) ELSE down[d]]
                 /\ peer' = [d \in Conns |->
                               CASE d \in gone -> "closed"
                                 [] d \in fins -> IF lateReset THEN "fin" ELSE "rst_fin"
                                 [] OTHER     -> peer[d]]
                 /\ fd' = [d \in Conns |-> IF d \in gone THEN 0 ELSE fd[d]]
                 /\ sbuf' = [d \in Conns |-> IF d = c THEN p.buf
                                             ELSE IF d \in gone THEN <<>> ELSE sbuf[d]]
                 /\ dropped' = (dropped \/ gone # {})
                 /\ todo' = todo \ {Current} /\ UNCHANGED server
         /\ sfile' = [sfile EXCEPT ![c] = p.file]
         /\ UNCHANGED <<people, readers, pollfds>>

\* process_client on data.
Process(c) == \E k \in 1 .. Len(up[c]) :
    Broadcast(c, k, ServerParse(sbuf[c] \o SubSeq(up[c], 1, k), sfile[c]))

\* Mutant: the entry of pollfds is not cleared.
Hangup_KeepPolling(c) ==
    /\ peer' = [peer EXCEPT ![c] = "closed"] /\ fd' = [fd EXCEPT ![c] = 0]
    /\ sbuf' = [sbuf EXCEPT ![c] = <<>>] /\ todo' = todo \ {Current}
    /\ UNCHANGED <<people, streams, readers, sfile, pollfds, server, dropped>>

\* process_client at the end of the stream or after a reset.
Hangup(c) ==
    /\ peer' = [peer EXCEPT ![c] = "closed"] /\ fd' = [fd EXCEPT ![c] = 0]
    /\ sbuf' = [sbuf EXCEPT ![c] = <<>>] /\ todo' = todo \ {Current}
    /\ pollfds' = [pollfds EXCEPT ![Current] = 0]
    /\ UNCHANGED <<people, streams, readers, sfile, server, dropped>>

\* The next entry with an event.  With nothing to read it waits in read.
Serve ==
    /\ server = "round" /\ todo # {}
    /\ LET its == {c \in Listed : fd[c] = pollfds[Current]}
       IN \/ its = {} /\ todo' = todo \ {Current}
             /\ UNCHANGED <<people, streams, readers, tables, pollfds, server, dropped>>
          \/ \E c \in its : Process(c)
          \/ \E c \in its : up[c] = <<>> /\ peer[c] # "open" /\ Hangup(c)

\* What the loop over new_nfds leaves of the entries.
Kept(entries) ==
    LET kept[n \in 0 .. Len(entries)] ==
          IF n = 0 THEN <<>>
          ELSE IF entries[n] = 0 THEN kept[n - 1] ELSE Append(kept[n - 1], entries[n])
    IN kept[Len(entries)]

EndRound ==
    /\ server = "round" /\ todo = {} /\ server' = "poll"
    /\ pollfds' = Kept(pollfds)
    /\ UNCHANGED <<people, streams, readers, tables, todo, dropped>>

\* SIGINT: seen by poll, not by read.
Stop ==
    /\ server = "poll" /\ Shutdown
    /\ UNCHANGED <<people, down, readers, sfile, pollfds, dropped>>

Next == \/ \E c \in Conns : Join(c) \/ Say(c) \/ Listen(c) \/ ListenFile(c) \/ Leave(c)
        \/ Round \/ Serve \/ EndRound \/ Stop

Spec == Init /\ [][Next]_tcVars

-----------------------------------------------------------------------------
(* Properties *)

\* Until a broadcast removes a client behind the poll loop's back, the loop
\* polls exactly the connected clients, each once, and reads only where data or
\* an end of file is under way: no client makes the others wait.
PollsTheConnected == ~dropped /\ server # "down" =>
    /\ server = "poll" =>
         /\ Range(pollfds) = {fd[c] : c \in Listed}
         /\ Len(pollfds) = Cardinality(Listed)
    /\ \A i \in todo, c \in Listed : fd[c] = pollfds[i] => Pending(c)

\* The units a client sent, in order.
SentBy(s) == FlattenSeq([n \in DOMAIN said |->
    IF said[n].by # s THEN <<>>
    ELSE SelectSeq(Stream(n, said[n].size), LAMBDA u : u # NL)])

\* As long as nothing else is sent, and nobody joins, while a file is under way,
\* what a client takes from each of the others is an unbroken stretch of what
\* that one sent: lines whole and in order, files with their own bytes only.
HeardInOrder == ~mixed => \A c, s \in Conns :
    LET mine == SelectSeq(printed[c], LAMBDA u : u.n > 0 /\ said[u.n].by = s)
        all  == SentBy(s)
    IN c # s => \E i \in 1 .. Len(all) + 1 : IsPrefix(mine, SubSeq(all, i, Len(all)))
=============================================================================

-------------------------------- MODULE MqChat --------------------------------
(***************************************************************************)
(* module1/task3/chat.c: two processes chat over a pair of POSIX message    *)
(* queues.  Whoever creates <name>_1 is process 1, the creator, and removes *)
(* both queues at the end; everybody else joins as process 2.  A queue      *)
(* hands out the highest priority first: END overtakes the lines.           *)
(*                                                                          *)
(* A queue is an object; unlinking takes its name away, and whoever has it  *)
(* open goes on using it.  Nothing keeps a third process from joining, or   *)
(* from creating new queues while the old ones are being removed.  poll and *)
(* the queue calls are interrupted by SIGINT only once they sleep.          *)
(***************************************************************************)
EXTENDS Integers, FiniteSets, SequencesExt

CONSTANTS
    Procs,        \* the processes started with one name
    MAX_MESSAGES, \* lines a queue holds
    Typists,      \* the processes at which a user types lines and Ctrl-C; only they are killed
    MaxLines,     \* bound on the lines typed
    MaxFaults     \* bound on the number of Ctrl-Cs and killed processes

ASSUME MqChatAssumption ==
    /\ MAX_MESSAGES \in Nat \ {0} /\ Typists \subseteq Procs
    /\ MaxLines \in Nat /\ MaxFaults \in Nat

\* A process creates each of the two queues at most once.
Queues == [owner : Procs, k : {1, 2}]
NoQueue == [owner |-> "nobody", k |-> 0]
Queue(p, k) == [owner |-> p, k |-> k]

Line(p, n) == [from |-> p, n |-> n]
END == Line("END", 0)

VARIABLES
    pc,          \* where each process is
    asleep,      \* processes asleep in poll or in a queue call
    sigint_received,
    name,        \* the queue behind <name>_1 and <name>_2
    content,     \* the messages of each queue, in the order of mq_receive
    queue,       \* queue1 and queue2 of each process
    ready,       \* what poll found: "queue", "input"
    input,       \* the line in each process's buffer, by number
    lines,       \* lines typed so far
    faults,      \* Ctrl-Cs and kills so far
    printed      \* history: the lines each process printed

names   == <<name, content, queue>>
bounds  == <<lines, faults>>
locals  == <<ready, input>>
vars    == <<pc, asleep, sigint_received, names, locals, bounds, printed>>

Ended == {"done", "failed", "killed"}

Init ==
    /\ pc = [p \in Procs |-> "start"] /\ asleep = {}
    /\ sigint_received = [p \in Procs |-> FALSE]
    /\ name = [k \in {1, 2} |-> NoQueue]
    /\ content = [o \in Queues |-> <<>>]
    /\ queue = [p \in Procs |-> [k \in {1, 2} |-> NoQueue]]
    /\ ready = [p \in Procs |-> {}] /\ input = [p \in Procs |-> 0]
    /\ lines = 0 /\ faults = 0
    /\ printed = [p \in Procs |-> <<>>]

At(p, l)   == pc[p] = l
Goto(p, l) == pc' = [pc EXCEPT ![p] = l]

creator(p)       == queue[p][1].owner = p
receive_queue(p) == queue[p][IF creator(p) THEN 1 ELSE 2]
send_queue(p)    == queue[p][IF creator(p) THEN 2 ELSE 1]

\* A queue without a name that nobody has open is gone, with its messages.
Freed(c) == [o \in Queues |->
    IF \E k \in {1, 2} : name'[k] = o \/ \E p \in Procs : queue'[p][k] = o
    THEN c[o] ELSE <<>>]

\* mq_close, or the end of the process.
Close(p) == /\ queue' = [queue EXCEPT ![p] = [k \in {1, 2} |-> NoQueue]]
            /\ content' = Freed(content)

-----------------------------------------------------------------------------
(* Creating and joining *)

\* Mutant: mq_open of the first queue without O_EXCL.
CreateFirst_NoExcl(p) ==
    /\ At(p, "start")
    /\ name' = [name EXCEPT ![1] = Queue(p, 1)]
    /\ queue' = [queue EXCEPT ![p][1] = Queue(p, 1)]
    /\ Goto(p, "create2")
    /\ UNCHANGED <<asleep, sigint_received, content, locals, bounds, printed>>

CreateFirst(p) ==
    /\ At(p, "start")
    /\ IF name[1] = NoQueue
       THEN /\ name' = [name EXCEPT ![1] = Queue(p, 1)]
            /\ queue' = [queue EXCEPT ![p][1] = Queue(p, 1)]
            /\ Goto(p, "create2")
       ELSE Goto(p, "open1") /\ UNCHANGED <<name, queue>>
    /\ UNCHANGED <<asleep, sigint_received, content, locals, bounds, printed>>

\* The second name is taken: the first queue is removed again.
CreateSecond(p) ==
    /\ At(p, "create2")
    /\ IF name[2] = NoQueue
       THEN /\ name' = [name EXCEPT ![2] = Queue(p, 2)]
            /\ queue' = [queue EXCEPT ![p][2] = Queue(p, 2)]
            /\ Goto(p, "check")
            /\ UNCHANGED content
       ELSE /\ name' = [name EXCEPT ![1] = NoQueue]
            /\ Goto(p, "failed") /\ Close(p)
    /\ UNCHANGED <<asleep, sigint_received, locals, bounds, printed>>

\* open_existing_queue finds the name in one of its attempts, or gives up.
OpenExisting(p, k) ==
    /\ At(p, IF k = 1 THEN "open1" ELSE "open2")
    /\ \/ /\ name[k] # NoQueue
          /\ queue' = [queue EXCEPT ![p][k] = name[k]]
          /\ Goto(p, IF k = 1 THEN "open2" ELSE "check")
          /\ UNCHANGED <<name, content>>
       \/ name[k] = NoQueue /\ Goto(p, "failed") /\ UNCHANGED name /\ Close(p)
    /\ UNCHANGED <<asleep, sigint_received, locals, bounds, printed>>

-----------------------------------------------------------------------------
(* The loop *)

CheckFlag(p) ==
    /\ At(p, "check")
    /\ Goto(p, IF sigint_received[p] THEN "send_end" ELSE "poll")
    /\ UNCHANGED <<asleep, sigint_received, names, locals, bounds, printed>>

\* poll returns: messages wait, or the user has typed a line, or both.
Poll(p) ==
    /\ At(p, "poll")
    /\ \E r \in SUBSET {"queue", "input"} \ {{}} :
          /\ "queue" \in r <=> content[receive_queue(p)] # <<>>
          /\ ready' = [ready EXCEPT ![p] = r]
          /\ Goto(p, IF "queue" \in r THEN "receive" ELSE "input")
    /\ asleep' = asleep \ {p}
    /\ UNCHANGED <<sigint_received, names, input, bounds, printed>>

PollSleeps(p) ==
    /\ At(p, "poll") /\ p \notin asleep
    /\ content[receive_queue(p)] = <<>>
    /\ asleep' = asleep \union {p}
    /\ UNCHANGED <<pc, sigint_received, names, locals, bounds, printed>>

\* Mutant: running is cleared, but the loop goes on with the user's line.
Receive_NoContinue(p) ==
    LET o == receive_queue(p)
    IN /\ At(p, "receive") /\ content[o] # <<>>
       /\ content' = [content EXCEPT ![o] = Tail(@)]
       /\ printed' = IF Head(content[o]) = END THEN printed
                     ELSE [printed EXCEPT ![p] = Append(@, Head(content[o]))]
       /\ Goto(p, "input") /\ asleep' = asleep \ {p}
       /\ UNCHANGED <<sigint_received, name, queue, locals, bounds>>

\* mq_receive; the highest priority, END, ends the loop.
Receive(p) ==
    LET o == receive_queue(p)
    IN /\ At(p, "receive") /\ content[o] # <<>>
       /\ content' = [content EXCEPT ![o] = Tail(@)]
       /\ IF Head(content[o]) = END
          THEN Goto(p, "cleanup") /\ UNCHANGED printed
          ELSE /\ printed' = [printed EXCEPT ![p] = Append(@, Head(content[o]))]
               /\ Goto(p, "input")
       /\ asleep' = asleep \ {p}
       /\ UNCHANGED <<sigint_received, name, queue, locals, bounds>>

\* Another process 2 was faster.
ReceiveSleeps(p) ==
    /\ At(p, "receive") /\ p \notin asleep /\ content[receive_queue(p)] = <<>>
    /\ asleep' = asleep \union {p}
    /\ UNCHANGED <<pc, sigint_received, names, locals, bounds, printed>>

\* The user's line, "/quit" or end of input, or a line that is too long.
Input(p) ==
    /\ At(p, "input")
    /\ IF "input" \in ready[p]
       THEN \/ /\ p \in Typists /\ lines < MaxLines /\ lines' = lines + 1
               /\ input' = [input EXCEPT ![p] = lines'] /\ Goto(p, "send")
            \/ \E l \in {"send_end", "check"} : Goto(p, l) /\ UNCHANGED <<lines, input>>
       ELSE Goto(p, "check") /\ UNCHANGED <<lines, input>>
    /\ ready' = [ready EXCEPT ![p] = {}]
    /\ UNCHANGED <<asleep, sigint_received, names, faults, printed>>

Full(o) == Len(content[o]) >= MAX_MESSAGES

\* Mutant: every line is more urgent than the ones before.
SendLine_Urgent(p) ==
    LET o == send_queue(p)
    IN /\ At(p, "send") /\ ~Full(o)
       /\ content' = [content EXCEPT ![o] = <<Line(p, input[p])>> \o @]
       /\ Goto(p, "check") /\ asleep' = asleep \ {p}
       /\ UNCHANGED <<sigint_received, name, queue, locals, bounds, printed>>

SendLine(p) ==
    LET o == send_queue(p)
    IN /\ At(p, "send") /\ ~Full(o)
       /\ content' = [content EXCEPT ![o] = Append(@, Line(p, input[p]))]
       /\ Goto(p, "check") /\ asleep' = asleep \ {p}
       /\ UNCHANGED <<sigint_received, name, queue, locals, bounds, printed>>

\* send_end_message: END goes before all the lines.
SendEnd(p) ==
    LET o == send_queue(p)
    IN /\ At(p, "send_end") /\ ~Full(o)
       /\ content' = [content EXCEPT ![o] = <<END>> \o @]
       /\ Goto(p, "cleanup") /\ asleep' = asleep \ {p}
       /\ UNCHANGED <<sigint_received, name, queue, locals, bounds, printed>>

SendSleeps(p) ==
    /\ pc[p] \in {"send", "send_end"} /\ p \notin asleep /\ Full(send_queue(p))
    /\ asleep' = asleep \union {p}
    /\ UNCHANGED <<pc, sigint_received, names, locals, bounds, printed>>

\* Where an interrupted or timed-out call leaves its process.
AfterError(p) ==
    CASE At(p, "poll")     -> "send_end"
      [] At(p, "receive")  -> "input"
      [] At(p, "send")     -> "check"
      [] At(p, "send_end") -> "cleanup"

\* mq_timedsend gives up after two seconds: the message is lost.
SendTimeout(p) ==
    /\ pc[p] \in {"send", "send_end"} /\ p \in asleep /\ Full(send_queue(p))
    /\ Goto(p, AfterError(p)) /\ asleep' = asleep \ {p}
    /\ UNCHANGED <<sigint_received, names, locals, bounds, printed>>

\* Mutant: only the first queue is removed.
Cleanup_OneQueue(p) ==
    /\ At(p, "cleanup")
    /\ name' = IF creator(p) THEN [name EXCEPT ![1] = NoQueue] ELSE name
    /\ Goto(p, "done") /\ Close(p)
    /\ UNCHANGED <<asleep, sigint_received, locals, bounds, printed>>

\* Both queues are closed; the creator unlinks the names, one after the other.
Cleanup(p) ==
    /\ At(p, "cleanup")
    /\ name' = IF creator(p) THEN [name EXCEPT ![1] = NoQueue] ELSE name
    /\ Goto(p, IF creator(p) THEN "unlink2" ELSE "done") /\ Close(p)
    /\ UNCHANGED <<asleep, sigint_received, locals, bounds, printed>>

UnlinkSecond(p) ==
    /\ At(p, "unlink2")
    /\ name' = [name EXCEPT ![2] = NoQueue] /\ Close(p)
    /\ Goto(p, "done")
    /\ UNCHANGED <<asleep, sigint_received, locals, bounds, printed>>

-----------------------------------------------------------------------------
Running(p) == pc[p] \notin Ended \union {"start"}

\* Before sigaction SIGINT kills; after it, it sets the flag and wakes a sleeper.
CtrlC(p) ==
    /\ p \in Typists /\ Running(p) /\ faults < MaxFaults /\ faults' = faults + 1
    /\ UNCHANGED <<name, locals, lines, printed>>
    /\ IF pc[p] \in {"create2", "open1", "open2"}
       THEN Goto(p, "killed") /\ Close(p) /\ UNCHANGED <<asleep, sigint_received>>
       ELSE /\ sigint_received' = [sigint_received EXCEPT ![p] = TRUE]
            /\ IF p \in asleep THEN Goto(p, AfterError(p)) /\ asleep' = asleep \ {p}
                               ELSE UNCHANGED <<pc, asleep>>
            /\ UNCHANGED <<content, queue>>

Kill(p) ==
    /\ p \in Typists /\ Running(p) /\ faults < MaxFaults /\ faults' = faults + 1
    /\ UNCHANGED <<sigint_received, name, locals, lines, printed>>
    /\ Goto(p, "killed") /\ Close(p) /\ asleep' = asleep \ {p}

Step(p) ==
    \/ CreateSecond(p) \/ OpenExisting(p, 1) \/ OpenExisting(p, 2)
    \/ CheckFlag(p) \/ PollSleeps(p) \/ Receive(p) \/ ReceiveSleeps(p) \/ Input(p)
    \/ SendLine(p) \/ SendEnd(p) \/ SendSleeps(p) \/ SendTimeout(p)
    \/ Cleanup(p) \/ UnlinkSecond(p)

Next == \E p \in Procs : CreateFirst(p) \/ Step(p) \/ Poll(p) \/ CtrlC(p) \/ Kill(p)

Spec == Init /\ [][Next]_vars

\* A started process keeps running, and poll returns while messages wait.  Users
\* owe nothing.
FairSpec ==
    /\ Spec
    /\ \A p \in Procs :
          WF_vars(Step(p) \/ (Poll(p) /\ content[receive_queue(p)] # <<>>))

-----------------------------------------------------------------------------
(* Properties *)

\* A process prints the lines of each sender in the order in which they were
\* typed, each at most once, and never its own, whoever else joined.
PrintedInOrder ==
    \A p \in Procs : \A i, j \in DOMAIN printed[p] :
        LET a == printed[p][i]  b == printed[p][j]
        IN /\ a.from # p
           /\ i < j /\ a.from = b.from => a.n < b.n

\* A process takes away only names of its own queues, although it unlinks by
\* name and the names may belong to a later chat by then.
OwnUnlink ==
    [][\A k \in {1, 2} :
          name[k] # NoQueue /\ name'[k] # name[k] =>
              /\ name'[k] = NoQueue
              /\ pc'[name[k].owner] # pc[name[k].owner]]_vars

\* A queue that can be joined belongs to somebody who will remove it: its
\* creator has not returned, unless it was killed.
NameHasOwner ==
    \A k \in {1, 2} : name[k] # NoQueue => pc[name[k].owner] \notin {"done", "failed"}

\* An END waits for p, and nobody else may take it.
ToldAlone(p) ==
    /\ Running(p) /\ receive_queue(p) # NoQueue
    /\ Contains(content[receive_queue(p)], END)
    /\ \A r \in Procs \ {p} : receive_queue(r) # receive_queue(p)

\* When one side leaves and its END went into the queue, the only reader of that
\* queue leaves too, whatever it was doing.
PeerLeaves ==
    \A p \in Procs : ToldAlone(p) ~> \/ pc[p] \in Ended
                                     \/ \E r \in Procs \ {p} : receive_queue(r) = receive_queue(p)

\* Line 244, "to leave: /quit or Ctrl+C": a Ctrl-C after that line ends the
\* process.
CtrlCEnds == \A p \in Procs : sigint_received[p] ~> pc[p] \in Ended
=============================================================================

----------------------------- MODULE MqChatProofs -----------------------------
(***************************************************************************)
(* Safety of MqChat for any number of processes, any size of a queue, and   *)
(* any number of lines, Ctrl-Cs and kills.                                  *)
(***************************************************************************)
EXTENDS MqChat, TLAPS, SequenceTheorems

Messages == [from : Procs, n : Nat \ {0}] \union {END}

\* Before the loop; in it, with both queues open.
Opening == {"start", "create2", "open1", "open2"}
Loop    == {"check", "poll", "receive", "input", "send", "send_end", "cleanup"}

\* What may stand behind name k.
Named(k) == [owner : Procs, k : {k}] \union {NoQueue}

PcType ==
    /\ pc \in [Procs -> Opening \union Loop \union {"unlink2"} \union Ended]
    /\ asleep \subseteq Procs
    /\ \A p \in asleep : pc[p] \in {"poll", "receive", "send", "send_end"}

QueueType ==
    /\ DOMAIN name = {1, 2} /\ name[1] \in Named(1) /\ name[2] \in Named(2)
    /\ queue \in [Procs -> [{1, 2} -> Queues \union {NoQueue}]]
    /\ \A p \in Procs : queue[p][1] \in Named(1) /\ queue[p][2] \in Named(2)

LineType ==
    /\ content \in [Queues -> Seq(Messages)] /\ printed \in [Procs -> Seq(Messages)]
    /\ input \in [Procs -> Nat] /\ lines \in Nat
    /\ \A p \in Procs : input[p] <= lines

\* Types, and who can be asleep.
TypeInv == PcType /\ QueueType /\ LineType

\* The queues a process has open: a creator its own, everybody else those of others.
OpenInv ==
    \A p \in Procs :
        /\ At(p, "create2") => queue[p][1] = Queue(p, 1)
        /\ At(p, "open2")   => queue[p][1] # NoQueue /\ queue[p][1].owner # p
        /\ pc[p] \in Loop   => queue[p][1] # NoQueue /\ queue[p][2] # NoQueue

\* A creator has its names from the moment it makes them to the unlink; and a
\* name belongs to a creator that has not come to its unlink, or was killed.
NameInv ==
    /\ \A p \in Procs :
          /\ pc[p] \in {"create2"} \union Loop /\ creator(p) => name[1] = Queue(p, 1)
          /\ At(p, "unlink2") \/ (pc[p] \in Loop /\ creator(p)) => name[2] = Queue(p, 2)
    /\ name[1] # NoQueue =>
          \/ At(name[1].owner, "killed")
          \/ pc[name[1].owner] \in {"create2"} \union Loop /\ creator(name[1].owner)
    /\ name[2] # NoQueue =>
          \/ pc[name[2].owner] \in {"unlink2", "killed"}
          \/ pc[name[2].owner] \in Loop /\ creator(name[2].owner)

\* END, or a line its sender typed and sent.
Sent(m) == m.n # 0 => m.n <= input[m.from] /\ (At(m.from, "send") => m.n < input[m.from])

\* a and b are not two lines of one sender in the wrong order.
Ordered(a, b) == a.n # 0 /\ a.from = b.from => a.n < b.n

InputInv ==
    \A p \in Procs : /\ pc[p] \in Opening => input[p] = 0 /\ printed[p] = <<>>
                     /\ At(p, "send") => input[p] # 0

\* What is under way was sent, and waits in the order of sending behind the ENDs.
ContentInv ==
    \A o \in Queues : \A i \in 1 .. Len(content[o]) :
        /\ Sent(content[o][i])
        /\ \A j \in 1 .. Len(content[o]) :
              i < j /\ content[o][j].n # 0 => Ordered(content[o][i], content[o][j])

\* What waits for a process comes from others, after all it has printed.
ReaderInv ==
    \A p \in Procs : pc[p] \in Loop =>
        \A j \in 1 .. Len(content[receive_queue(p)]) :
            LET m == content[receive_queue(p)][j]
            IN m.n # 0 => /\ m.from # p
                          /\ \A i \in 1 .. Len(printed[p]) : Ordered(printed[p][i], m)

PrintedInv ==
    \A p \in Procs : \A i \in 1 .. Len(printed[p]) :
        /\ printed[p][i].n # 0 /\ Sent(printed[p][i]) /\ printed[p][i].from # p
        /\ \A j \in 1 .. Len(printed[p]) : i < j => Ordered(printed[p][i], printed[p][j])

\* The inductive invariant.
OrderInv == InputInv /\ ContentInv /\ ReaderInv /\ PrintedInv
IndInv   == TypeInv /\ OpenInv /\ NameInv /\ OrderInv

-----------------------------------------------------------------------------
(* Facts about the operators *)

LEMMA MessageTypes ==
  /\ END \in Messages /\ END.n = 0
  /\ \A p \in Procs, n \in Nat \ {0} : Line(p, n) \in Messages
  /\ \A m \in Messages : m.n \in Nat /\ (m.n # 0 => m.from \in Procs) /\ (m.n = 0 => m = END)
BY DEF Messages, END, Line

LEMMA QueueTypes ==
  /\ \A p \in Procs : Queue(p, 1) \in Named(1) /\ Queue(p, 2) \in Named(2)
  /\ \A o \in Named(1) : o # NoQueue => o \in Queues /\ o.owner \in Procs /\ o = Queue(o.owner, 1)
  /\ \A o \in Named(2) : o # NoQueue => o \in Queues /\ o.owner \in Procs /\ o = Queue(o.owner, 2)
  /\ \A p \in Procs, k \in {1, 2} : Queue(p, k) \in Queues /\ Queue(p, k) # NoQueue
                                     /\ Queue(p, k).owner = p
  /\ NoQueue \notin Queues /\ NoQueue \in Named(1) /\ NoQueue \in Named(2)
  /\ Named(1) \subseteq Queues \union {NoQueue} /\ Named(2) \subseteq Queues \union {NoQueue}
  /\ \A o \in Named(1) \ {NoQueue}, r \in Named(2) \ {NoQueue} : o # r
BY DEF Named, Queues, Queue, NoQueue

LEMMA TakeFirst ==
  ASSUME NEW S, NEW s \in Seq(S), s # <<>>
  PROVE  /\ Len(s) \in Nat /\ Len(s) >= 1 /\ Head(s) \in S /\ Head(s) = s[1]
         /\ Tail(s) \in Seq(S) /\ Len(Tail(s)) = Len(s) - 1
         /\ \A k \in 1 .. Len(s) - 1 : Tail(s)[k] = s[k + 1]
BY HeadTailProperties, EmptySeq, LenProperties

LEMMA PutLast ==
  ASSUME NEW S, NEW s \in Seq(S), NEW e \in S
  PROVE  /\ Append(s, e) \in Seq(S) /\ Len(s) \in Nat /\ Len(Append(s, e)) = Len(s) + 1
         /\ \A k \in 1 .. Len(s) : Append(s, e)[k] = s[k]
         /\ Append(s, e)[Len(s) + 1] = e
BY AppendProperties, LenProperties

LEMMA PutFirst ==
  ASSUME NEW S, NEW s \in Seq(S), NEW e \in S
  PROVE  /\ <<e>> \o s \in Seq(S) /\ Len(s) \in Nat /\ Len(<<e>> \o s) = Len(s) + 1
         /\ (<<e>> \o s)[1] = e
         /\ \A k \in 2 .. Len(s) + 1 : (<<e>> \o s)[k] = s[k - 1]
<1>1. <<e>> \in Seq(S) /\ Len(<<e>>) = 1 /\ <<e>>[1] = e
  OBVIOUS
<1>. QED
  BY <1>1, ConcatProperties, LenProperties

-----------------------------------------------------------------------------
(* Steps inside the loop *)

\* A process in the loop has its two queues open, and they are different.
LEMMA OpenQueues ==
  ASSUME TypeInv, OpenInv, NEW p \in Procs, pc[p] \in Loop
  PROVE  /\ receive_queue(p) \in Queues /\ send_queue(p) \in Queues
         /\ receive_queue(p) # send_queue(p)
BY QueueTypes DEF TypeInv, QueueType, OpenInv, receive_queue, send_queue

LEMMA PcMoves ==
  ASSUME TypeInv, NEW p \in Procs, NEW l, Goto(p, l)
  PROVE  pc'[p] = l /\ \A r \in Procs : r # p => pc'[r] = pc[r]
BY DEF TypeInv, PcType, Goto

\* Queues and names stay when a process goes from one place of the loop to another.
LEMMA LoopStep ==
  ASSUME IndInv, NEW p \in Procs, pc[p] \in Loop, NEW l \in Loop, Goto(p, l),
         asleep' = asleep \ {p}, UNCHANGED <<name, queue>>
  PROVE  /\ PcType' /\ QueueType' /\ OpenInv' /\ NameInv'
         /\ \A r \in Procs : receive_queue(r)' = receive_queue(r)
<1>1. pc'[p] = l /\ \A r \in Procs : r # p => pc'[r] = pc[r]
  BY PcMoves DEF IndInv
<1>2. PcType'
  BY <1>1 DEF IndInv, TypeInv, PcType, Goto
<1>3. QueueType'
  BY DEF IndInv, TypeInv, QueueType
<1>4. OpenInv'
  BY <1>1 DEF IndInv, OpenInv, At, Loop
<1>5. NameInv'
  <2>1. \A r \in Procs : creator(r)' = creator(r)
    BY DEF creator
  <2>2. /\ name[1] # NoQueue => name[1].owner \in Procs
        /\ name[2] # NoQueue => name[2].owner \in Procs
    BY QueueTypes DEF IndInv, TypeInv, QueueType
  <2>. QED
    BY <1>1, <2>1, <2>2 DEF IndInv, NameInv, At, Loop
<1>. QED
  BY <1>2, <1>3, <1>4, <1>5 DEF receive_queue, creator

\* ... and nothing is sent or taken on the way.
LEMMA QuietStep ==
  ASSUME IndInv, NEW p \in Procs, pc[p] \in Loop, NEW l \in Loop \ {"send"}, Goto(p, l),
         asleep' = asleep \ {p}, UNCHANGED <<names, input, printed>>, lines' = lines
  PROVE  IndInv'
<1>1. /\ PcType' /\ QueueType' /\ OpenInv' /\ NameInv'
      /\ \A r \in Procs : receive_queue(r)' = receive_queue(r)
  BY LoopStep DEF names
<1>2. pc'[p] = l /\ \A r \in Procs : r # p => pc'[r] = pc[r]
  BY PcMoves DEF IndInv
<1>3. LineType'
  BY DEF IndInv, TypeInv, LineType, names
<1>4. InputInv'
  BY <1>2 DEF IndInv, OrderInv, InputInv, At, Loop, Opening
<1>5. \A m \in Messages : Sent(m) => Sent(m)'
  BY <1>2, MessageTypes DEF Sent, At
<1>6. ContentInv'
  BY <1>5, LenProperties DEF IndInv, OrderInv, ContentInv, TypeInv, LineType, names, Ordered
<1>7. ReaderInv'
  BY <1>1, <1>2 DEF IndInv, OrderInv, ReaderInv, names, Ordered
<1>8. PrintedInv'
  BY <1>5, LenProperties DEF IndInv, OrderInv, PrintedInv, TypeInv, LineType, Ordered
<1>. QED
  BY <1>1, <1>3, <1>4, <1>6, <1>7, <1>8 DEF IndInv, TypeInv, OrderInv

\* A process falls asleep.
LEMMA SleepStep ==
  ASSUME IndInv, NEW p \in Procs, pc[p] \in {"poll", "receive", "send", "send_end"},
         asleep' = asleep \union {p}, UNCHANGED <<pc, names, input, printed, lines>>
  PROVE  IndInv'
<1>1. PcType'
  BY DEF IndInv, TypeInv, PcType
<1>2. QueueType' /\ LineType' /\ OpenInv'
  BY DEF IndInv, TypeInv, QueueType, LineType, OpenInv, At, names
<1>3. NameInv'
  BY DEF IndInv, NameInv, At, creator, names
<1>4. OrderInv'
  <2>1. \A m : Sent(m)' <=> Sent(m)
    BY DEF Sent, At
  <2>2. InputInv'
    BY DEF IndInv, OrderInv, InputInv, At
  <2>3. ContentInv'
    BY <2>1 DEF IndInv, OrderInv, ContentInv, names, Ordered
  <2>4. ReaderInv'
    BY DEF IndInv, OrderInv, ReaderInv, names, receive_queue, creator, Ordered
  <2>5. PrintedInv'
    BY <2>1 DEF IndInv, OrderInv, PrintedInv, Ordered
  <2>. QED
    BY <2>2, <2>3, <2>4, <2>5 DEF OrderInv
<1>. QED
  BY <1>1, <1>2, <1>3, <1>4 DEF IndInv, TypeInv

-----------------------------------------------------------------------------
(* Opening and closing *)

\* Whoever has not come to the loop has sent nothing and printed nothing.
LEMMA OpeningOrder ==
  ASSUME IndInv, NEW p \in Procs, pc[p] \in Opening, NEW l \in Opening \union {"check"},
         Goto(p, l), QueueType', OpenInv', \A r \in Procs \ {p} : queue'[r] = queue[r],
         UNCHANGED <<asleep, content, input, printed, lines>>
  PROVE  PcType' /\ LineType' /\ OrderInv'
<1>1. pc'[p] = l /\ \A r \in Procs : r # p => pc'[r] = pc[r]
  BY PcMoves DEF IndInv
<1>2. PcType'
  BY <1>1 DEF IndInv, TypeInv, PcType, Goto, Loop, Opening
<1>3. LineType'
  BY DEF IndInv, TypeInv, LineType
<1>4. InputInv'
  BY <1>1 DEF IndInv, OrderInv, InputInv, At, Loop, Opening
<1>5. \A m \in Messages : Sent(m) => Sent(m)'
  BY <1>1, MessageTypes DEF Sent, At, Opening
<1>6. ContentInv'
  BY <1>5, LenProperties DEF IndInv, OrderInv, ContentInv, TypeInv, LineType, Ordered
<1>7. PrintedInv'
  BY <1>5, LenProperties DEF IndInv, OrderInv, PrintedInv, TypeInv, LineType, Ordered
<1>8. ReaderInv'
  <2>. SUFFICES ASSUME NEW r \in Procs, pc'[r] \in Loop, NEW o, o = receive_queue(r)',
                       NEW j \in 1 .. Len(content[o]), content[o][j].n # 0
                PROVE  /\ content[o][j].from # r
                       /\ \A i \in 1 .. Len(printed[r]) : Ordered(printed[r][i], content[o][j])
    BY DEF ReaderInv, Ordered
  <2>1. CASE r # p
    BY <1>1, <2>1 DEF IndInv, OrderInv, ReaderInv, receive_queue, creator
  <2>2. CASE r = p
    <3>1. o \in Queues
      BY QueueTypes DEF QueueType, OpenInv, receive_queue
    <3>2. content[o][j] \in Messages /\ Sent(content[o][j])
      BY <3>1, LenProperties DEF IndInv, OrderInv, ContentInv, TypeInv, LineType
    <3>3. content[o][j].from # p
      BY <3>2, MessageTypes DEF Sent, IndInv, OrderInv, InputInv
    <3>4. Len(printed[p]) = 0
      BY DEF IndInv, OrderInv, InputInv
    <3>. QED
      BY <3>3, <3>4, <2>2
  <2>. QED
    BY <2>1, <2>2
<1>. QED
  BY <1>2, <1>3, <1>4, <1>6, <1>7, <1>8 DEF OrderInv

\* A process closes its queues, and queues nobody knows any more are emptied.
LEMMA CloseStep ==
  ASSUME IndInv, NEW p \in Procs, NEW l \in Ended \union {"unlink2"}, Goto(p, l), Close(p),
         asleep' \subseteq asleep, p \notin asleep',
         DOMAIN name' = {1, 2}, name'[1] \in {name[1], NoQueue}, name'[2] \in {name[2], NoQueue},
         UNCHANGED <<input, printed, lines>>
  PROVE  /\ TypeInv' /\ OpenInv' /\ OrderInv'
         /\ pc'[p] = l /\ \A r \in Procs \ {p} : pc'[r] = pc[r] /\ queue'[r] = queue[r]
<1>1. pc'[p] = l /\ \A r \in Procs : r # p => pc'[r] = pc[r]
  BY PcMoves DEF IndInv
<1>2. PcType'
  BY <1>1 DEF IndInv, TypeInv, PcType, Goto, Loop, Opening, Ended
<1>3. /\ \A r \in Procs \ {p} : queue'[r] = queue[r]
      /\ queue'[p][1] = NoQueue /\ queue'[p][2] = NoQueue
      /\ queue' \in [Procs -> [{1, 2} -> Queues \union {NoQueue}]]
  BY DEF Close, IndInv, TypeInv, QueueType
<1>4. QueueType'
  BY <1>3, QueueTypes DEF IndInv, TypeInv, QueueType
<1>5. \A o \in Queues : content'[o] = content[o] \/ content'[o] = <<>>
  BY DEF Close, Freed
<1>6. LineType'
  BY <1>5, EmptySeq DEF Close, Freed, IndInv, TypeInv, LineType
<1>7. OpenInv'
  BY <1>1, <1>3 DEF IndInv, OpenInv, At, Loop, Ended
<1>8. OrderInv'
  <2>1. InputInv'
    BY <1>1 DEF IndInv, OrderInv, InputInv, At, Loop, Opening, Ended
  <2>2. \A m \in Messages : Sent(m) => Sent(m)'
    BY <1>1, MessageTypes DEF Sent, At, Ended
  <2>3. \A o \in Queues : Len(content'[o]) # 0 => content'[o] = content[o]
    BY <1>5
  <2>4. ContentInv'
    <3>. SUFFICES ASSUME NEW o \in Queues, NEW i \in 1 .. Len(content'[o]),
                         content'[o] = content[o]
                  PROVE  /\ Sent(content[o][i])'
                         /\ \A j \in 1 .. Len(content[o]) :
                             i < j /\ content[o][j].n # 0 => Ordered(content[o][i], content[o][j])
      BY <2>3 DEF ContentInv, Ordered, Sent, At
    <3>. QED
      BY <2>2, LenProperties DEF IndInv, OrderInv, ContentInv, TypeInv, LineType
  <2>5. PrintedInv'
    BY <2>2, LenProperties DEF IndInv, OrderInv, PrintedInv, TypeInv, LineType, Ordered
  <2>6. ReaderInv'
    <3>. SUFFICES ASSUME NEW r \in Procs, pc'[r] \in Loop, NEW o, o = receive_queue(r)',
                         NEW j \in 1 .. Len(content'[o]), content'[o][j].n # 0
                  PROVE  /\ content'[o][j].from # r
                         /\ \A i \in 1 .. Len(printed[r]) : Ordered(printed[r][i], content'[o][j])
      BY DEF ReaderInv, Ordered
    <3>1. r # p /\ pc[r] \in Loop /\ o = receive_queue(r)
      BY <1>1, <1>3 DEF Ended, Loop, receive_queue, creator
    <3>2. o \in Queues
      BY <3>1, OpenQueues DEF IndInv
    <3>3. content'[o] = content[o]
      BY <2>3, <3>2
    <3>. QED
      BY <3>1, <3>3 DEF IndInv, OrderInv, ReaderInv
  <2>. QED
    BY <2>1, <2>4, <2>5, <2>6 DEF OrderInv
<1>. QED
  BY <1>1, <1>2, <1>3, <1>4, <1>6, <1>7, <1>8 DEF TypeInv

LEMMA InitInv == Init => IndInv
<1>. SUFFICES ASSUME Init PROVE IndInv
  OBVIOUS
<1>1. PcType
  BY DEF Init, PcType, Opening
<1>2. QueueType
  BY QueueTypes DEF Init, QueueType
<1>3. LineType
  BY EmptySeq DEF Init, LineType
<1>4. OpenInv /\ NameInv
  BY DEF Init, OpenInv, NameInv, At, Loop
<1>5. OrderInv
  BY DEF Init, OrderInv, InputInv, ContentInv, ReaderInv, PrintedInv, At, Loop
<1>. QED
  BY <1>1, <1>2, <1>3, <1>4, <1>5 DEF IndInv, TypeInv

-----------------------------------------------------------------------------
(* The actions: creating and joining *)

LEMMA CreateFirstStep ==
  ASSUME IndInv, NEW p \in Procs, CreateFirst(p)
  PROVE  IndInv'
<1>. USE DEF CreateFirst, locals, bounds
<1>1. CASE name[1] = NoQueue
  <2>0. Goto(p, "create2") /\ pc[p] = "start" /\ name' = [name EXCEPT ![1] = Queue(p, 1)]
        /\ queue' = [queue EXCEPT ![p][1] = Queue(p, 1)]
    BY <1>1 DEF At
  <2>1. pc'[p] = "create2" /\ \A r \in Procs : r # p => pc'[r] = pc[r]
    BY <2>0, PcMoves DEF IndInv
  <2>2. /\ name'[1] = Queue(p, 1) /\ name'[2] = name[2] /\ DOMAIN name' = {1, 2}
        /\ queue'[p][1] = Queue(p, 1) /\ queue'[p][2] = queue[p][2]
        /\ \A r \in Procs \ {p} : queue'[r] = queue[r]
        /\ queue' \in [Procs -> [{1, 2} -> Queues \union {NoQueue}]]
    BY <2>0, QueueTypes DEF IndInv, TypeInv, QueueType
  <2>3. QueueType'
    BY <2>2, QueueTypes DEF IndInv, TypeInv, QueueType
  <2>4. OpenInv'
    BY <2>1, <2>2 DEF IndInv, OpenInv, At, Loop
  <2>5. NameInv'
    <3>1. \A r \in Procs \ {p} : creator(r)' = creator(r)
      BY <2>2 DEF creator
    <3>2. creator(p)' /\ Queue(p, 1).owner = p
      BY <2>2, QueueTypes DEF creator
    <3>3. name[2] # NoQueue => name[2].owner \in Procs
      BY QueueTypes DEF IndInv, TypeInv, QueueType
    <3>4. \A r \in Procs : Queue(r, 1) # NoQueue
      BY QueueTypes
    <3>. QED
      BY <1>1, <2>0, <2>1, <2>2, <3>1, <3>2, <3>3, <3>4 DEF IndInv, NameInv, At, Loop
  <2>. QED
    BY <2>0, <2>2, <2>3, <2>4, <2>5, OpeningOrder DEF Opening, IndInv, TypeInv
<1>2. CASE name[1] # NoQueue
  <2>0. Goto(p, "open1") /\ pc[p] = "start" /\ UNCHANGED <<name, queue>>
    BY <1>2 DEF At
  <2>1. pc'[p] = "open1" /\ \A r \in Procs : r # p => pc'[r] = pc[r]
    BY <2>0, PcMoves DEF IndInv
  <2>2. QueueType' /\ OpenInv'
    BY <2>0, <2>1 DEF IndInv, TypeInv, QueueType, OpenInv, At, Loop
  <2>3. NameInv'
    <3>1. \A r \in Procs : creator(r)' = creator(r)
      BY <2>0 DEF creator
    <3>2. /\ name[2] # NoQueue => name[2].owner \in Procs
          /\ name[1] # NoQueue => name[1].owner \in Procs
      BY QueueTypes DEF IndInv, TypeInv, QueueType
    <3>. QED
      BY <2>0, <2>1, <3>1, <3>2 DEF IndInv, NameInv, At, Loop
  <2>. QED
    BY <2>0, <2>2, <2>3, OpeningOrder DEF Opening, IndInv, TypeInv
<1>. QED
  BY <1>1, <1>2

LEMMA CreateSecondStep ==
  ASSUME IndInv, NEW p \in Procs, CreateSecond(p)
  PROVE  IndInv'
<1>. USE DEF CreateSecond, locals, bounds
<1>0. queue[p][1] = Queue(p, 1) /\ creator(p) /\ pc[p] = "create2" /\ name[1] = Queue(p, 1)
  BY QueueTypes DEF IndInv, OpenInv, NameInv, At, creator
<1>a. \A r \in Procs, q \in Procs : Queue(q, 1) = Queue(r, 1) => q = r
  BY DEF Queue
<1>b. /\ name[2] # NoQueue => name[2].owner \in Procs
      /\ name[1] # NoQueue => name[1].owner \in Procs
  BY QueueTypes DEF IndInv, TypeInv, QueueType
<1>1. CASE name[2] = NoQueue
  <2>0. Goto(p, "check") /\ name' = [name EXCEPT ![2] = Queue(p, 2)]
        /\ queue' = [queue EXCEPT ![p][2] = Queue(p, 2)] /\ UNCHANGED content
    BY <1>1
  <2>1. pc'[p] = "check" /\ \A r \in Procs : r # p => pc'[r] = pc[r]
    BY <2>0, PcMoves DEF IndInv
  <2>2. /\ name'[2] = Queue(p, 2) /\ name'[1] = name[1] /\ DOMAIN name' = {1, 2}
        /\ queue'[p][2] = Queue(p, 2) /\ queue'[p][1] = queue[p][1]
        /\ \A r \in Procs \ {p} : queue'[r] = queue[r]
        /\ queue' \in [Procs -> [{1, 2} -> Queues \union {NoQueue}]]
    BY <2>0, QueueTypes DEF IndInv, TypeInv, QueueType
  <2>3. QueueType'
    BY <2>2, QueueTypes DEF IndInv, TypeInv, QueueType
  <2>4. OpenInv'
    BY <1>0, <2>1, <2>2, QueueTypes DEF IndInv, OpenInv, At, Loop
  <2>5. NameInv'
    <3>1. \A r \in Procs \ {p} : creator(r)' = creator(r)
      BY <2>2 DEF creator
    <3>2. creator(p)' /\ Queue(p, 1).owner = p /\ Queue(p, 2).owner = p
      BY <1>0, <2>2, QueueTypes DEF creator
    <3>4. \A r \in Procs : Queue(r, 2) # NoQueue
      BY QueueTypes
    <3>. QED
      BY <1>0, <1>a, <1>1, <1>b, <2>1, <2>2, <3>1, <3>2, <3>4 DEF IndInv, NameInv, At, Loop
  <2>. QED
    BY <1>0, <2>0, <2>2, <2>3, <2>4, <2>5, OpeningOrder DEF Opening, IndInv, TypeInv
<1>2. CASE name[2] # NoQueue
  <2>0. Goto(p, "failed") /\ name' = [name EXCEPT ![1] = NoQueue] /\ Close(p)
    BY <1>2
  <2>1. DOMAIN name' = {1, 2} /\ name'[1] = NoQueue /\ name'[2] = name[2]
    BY <2>0 DEF IndInv, TypeInv, QueueType
  <2>2. p \notin asleep
    BY <1>0 DEF IndInv, TypeInv, PcType
  <2>3. /\ TypeInv' /\ OpenInv' /\ OrderInv' /\ pc'[p] = "failed"
        /\ \A r \in Procs \ {p} : pc'[r] = pc[r] /\ queue'[r] = queue[r]
    BY <2>0, <2>1, <2>2, CloseStep DEF Ended
  <2>4. NameInv'
    <3>1. \A r \in Procs \ {p} : creator(r)' = creator(r)
      BY <2>3 DEF creator
    <3>. QED
      BY <1>0, <1>a, <1>b, <2>1, <2>3, <3>1 DEF IndInv, NameInv, At, Loop
  <2>. QED
    BY <2>3, <2>4 DEF IndInv
<1>. QED
  BY <1>1, <1>2

\* A process that ends without touching the names, and whose names outlive it only
\* when it was killed.
LEMMA GivesUp ==
  ASSUME IndInv, NEW p \in Procs, NEW l \in Ended, Goto(p, l), Close(p),
         asleep' \subseteq asleep, p \notin asleep', UNCHANGED <<name, input, printed, lines>>,
         l = "killed" \/ pc[p] \in {"open1", "open2"}
  PROVE  IndInv'
<1>1. DOMAIN name' = {1, 2}
  BY DEF IndInv, TypeInv, QueueType
<1>2. /\ TypeInv' /\ OpenInv' /\ OrderInv' /\ pc'[p] = l
      /\ \A r \in Procs \ {p} : pc'[r] = pc[r] /\ queue'[r] = queue[r]
  BY <1>1, CloseStep
<1>3. \A r \in Procs \ {p} : creator(r)' = creator(r)
  BY <1>2 DEF creator
<1>4. /\ name[2] # NoQueue => name[2].owner \in Procs
      /\ name[1] # NoQueue => name[1].owner \in Procs
  BY QueueTypes DEF IndInv, TypeInv, QueueType
<1>5. NameInv'
  BY <1>2, <1>3, <1>4 DEF IndInv, NameInv, At, Loop, Ended
<1>. QED
  BY <1>2, <1>5 DEF IndInv

LEMMA OpenExistingStep ==
  ASSUME IndInv, NEW p \in Procs, NEW k \in {1, 2}, OpenExisting(p, k)
  PROVE  IndInv'
<1>. USE DEF OpenExisting, locals, bounds
<1>0. pc[p] = IF k = 1 THEN "open1" ELSE "open2"
  BY DEF At
<1>1. CASE name[k] # NoQueue
  <2>0. /\ Goto(p, IF k = 1 THEN "open2" ELSE "check") /\ UNCHANGED <<name, content>>
        /\ queue' = [queue EXCEPT ![p][k] = name[k]]
    BY <1>1
  <2>1. pc'[p] = (IF k = 1 THEN "open2" ELSE "check") /\ \A r \in Procs : r # p => pc'[r] = pc[r]
    BY <2>0, PcMoves DEF IndInv
  <2>2. /\ queue'[p][k] = name[k] /\ queue'[p][3 - k] = queue[p][3 - k]
        /\ \A r \in Procs \ {p} : queue'[r] = queue[r]
        /\ queue' \in [Procs -> [{1, 2} -> Queues \union {NoQueue}]]
    BY <2>0, QueueTypes DEF IndInv, TypeInv, QueueType
  <2>3. QueueType'
    BY <2>0, <2>2, QueueTypes DEF IndInv, TypeInv, QueueType
  <2>4. k = 1 => name[1].owner # p
    BY <1>0, <1>1 DEF IndInv, NameInv, At, Loop
  <2>5. OpenInv'
    <3>1. CASE k = 1
      BY <3>1, <1>1, <2>1, <2>2, <2>4 DEF IndInv, OpenInv, At, Loop
    <3>2. CASE k = 2
      BY <3>2, <1>0, <1>1, <2>1, <2>2 DEF IndInv, OpenInv, At, Loop
    <3>. QED
      BY <3>1, <3>2
  <2>6. NameInv'
    <3>1. \A r \in Procs \ {p} : creator(r)' = creator(r)
      BY <2>2 DEF creator
    <3>2. ~creator(p)'
      <4>1. CASE k = 1
        BY <4>1, <2>2, <2>4 DEF creator
      <4>2. CASE k = 2
        BY <4>2, <2>2, <1>0 DEF creator, IndInv, OpenInv, At
      <4>. QED
        BY <4>1, <4>2
    <3>3. /\ name[2] # NoQueue => name[2].owner \in Procs
          /\ name[1] # NoQueue => name[1].owner \in Procs
      BY QueueTypes DEF IndInv, TypeInv, QueueType
    <3>. QED
      BY <1>0, <2>0, <2>1, <3>1, <3>2, <3>3 DEF IndInv, NameInv, At, Loop
  <2>. QED
    BY <1>0, <2>0, <2>2, <2>3, <2>5, <2>6, OpeningOrder DEF Opening, IndInv, TypeInv
<1>2. CASE name[k] = NoQueue
  <2>1. Goto(p, "failed") /\ UNCHANGED name /\ Close(p)
    BY <1>2
  <2>2. p \notin asleep
    BY <1>0 DEF IndInv, TypeInv, PcType
  <2>. QED
    BY <1>0, <2>1, <2>2, GivesUp DEF Ended
<1>. QED
  BY <1>1, <1>2

-----------------------------------------------------------------------------
(* The actions: the loop *)

LEMMA CheckFlagStep ==
  ASSUME IndInv, NEW p \in Procs, CheckFlag(p)
  PROVE  IndInv'
<1>1. PICK l \in {"send_end", "poll"} : Goto(p, l)
  BY DEF CheckFlag
<1>2. asleep' = asleep \ {p}
  BY DEF CheckFlag, At, IndInv, TypeInv, PcType
<1>. QED
  BY <1>1, <1>2, QuietStep DEF CheckFlag, At, Loop, names, locals, bounds

LEMMA PollStep ==
  ASSUME IndInv, NEW p \in Procs, Poll(p)
  PROVE  IndInv'
<1>1. PICK l \in {"receive", "input"} : Goto(p, l)
  BY DEF Poll
<1>. QED
  BY <1>1, QuietStep DEF Poll, At, Loop, names, locals, bounds

LEMMA SleepSteps ==
  ASSUME IndInv, NEW p \in Procs, PollSleeps(p) \/ ReceiveSleeps(p) \/ SendSleeps(p)
  PROVE  IndInv'
BY SleepStep DEF PollSleeps, ReceiveSleeps, SendSleeps, At, names, locals, bounds

LEMMA SendTimeoutStep ==
  ASSUME IndInv, NEW p \in Procs, SendTimeout(p)
  PROVE  IndInv'
<1>1. PICK l \in {"check", "cleanup"} : Goto(p, l)
  BY DEF SendTimeout, AfterError, At
<1>. QED
  BY <1>1, QuietStep DEF SendTimeout, Loop, names, locals, bounds

\* The oldest message goes to its reader.
LEMMA ReceiveStep ==
  ASSUME IndInv, NEW p \in Procs, Receive(p)
  PROVE  IndInv'
<1>. DEFINE o == receive_queue(p)
            c == content[o]
            l == IF Head(c) = END THEN "cleanup" ELSE "input"
<1>0. /\ pc[p] = "receive" /\ c # <<>> /\ content' = [content EXCEPT ![o] = Tail(@)]
      /\ Goto(p, l) /\ asleep' = asleep \ {p} /\ UNCHANGED <<name, queue, input, lines>>
      /\ printed' = IF Head(c) = END THEN printed ELSE [printed EXCEPT ![p] = Append(@, Head(c))]
  BY DEF Receive, At, locals, bounds
<1>1. o \in Queues
  BY <1>0, OpenQueues DEF IndInv, Loop
<1>2. /\ Len(c) \in Nat /\ Len(c) >= 1 /\ Head(c) \in Messages /\ Head(c) = c[1] /\ c \in Seq(Messages)
      /\ Tail(c) \in Seq(Messages) /\ Len(Tail(c)) = Len(c) - 1
      /\ \A j \in 1 .. Len(c) - 1 : Tail(c)[j] = c[j + 1]
  BY <1>0, <1>1, TakeFirst DEF IndInv, TypeInv, LineType
<1>3. content'[o] = Tail(c) /\ \A x \in Queues \ {o} : content'[x] = content[x]
  BY <1>0, <1>1 DEF IndInv, TypeInv, LineType
<1>4. /\ PcType' /\ QueueType' /\ OpenInv' /\ NameInv'
      /\ \A r \in Procs : receive_queue(r)' = receive_queue(r)
  BY <1>0, LoopStep DEF Loop
<1>5. pc'[p] = l /\ l \in {"cleanup", "input"} /\ \A r \in Procs : r # p => pc'[r] = pc[r]
  BY <1>0, PcMoves DEF IndInv
<1>6. Head(c) = END <=> Head(c).n = 0
  BY <1>2, MessageTypes
<1>7. /\ Head(c) # END => /\ Len(printed'[p]) = Len(printed[p]) + 1 /\ Len(printed[p]) \in Nat
                          /\ printed'[p][Len(printed[p]) + 1] = Head(c)
                          /\ \A j \in 1 .. Len(printed[p]) : printed'[p][j] = printed[p][j]
      /\ Head(c) = END => printed'[p] = printed[p]
      /\ \A r \in Procs \ {p} : printed'[r] = printed[r]
      /\ printed' \in [Procs -> Seq(Messages)]
  BY <1>0, <1>2, PutLast DEF IndInv, TypeInv, LineType
<1>8. LineType'
  BY <1>0, <1>2, <1>7 DEF IndInv, TypeInv, LineType
<1>9. InputInv'
  BY <1>0, <1>5, <1>7 DEF IndInv, OrderInv, InputInv, At, Opening
<1>10. \A m \in Messages : Sent(m) => Sent(m)'
  BY <1>0, <1>5, MessageTypes DEF Sent, At
<1>11. ContentInv'
  <2>. SUFFICES ASSUME NEW x \in Queues, NEW j \in 1 .. Len(content'[x]),
                       NEW m, m = content'[x][j]
                PROVE  /\ Sent(m)'
                       /\ \A k \in 1 .. Len(content'[x]) :
                            j < k /\ content'[x][k].n # 0 => Ordered(m, content'[x][k])
    BY DEF ContentInv, Ordered, Sent, At
  <2>1. CASE x = o
    <3>1. /\ content[o][j + 1] \in Messages /\ Sent(content[o][j + 1])
          /\ \A k \in 1 .. Len(c) : j + 1 < k /\ c[k].n # 0 => Ordered(c[j + 1], c[k])
      BY <2>1, <1>1, <1>2, <1>3, LenProperties DEF IndInv, OrderInv, ContentInv
    <3>. QED
      BY <2>1, <3>1, <1>2, <1>3, <1>10
  <2>2. CASE x # o
    BY <2>2, <1>3, <1>10, LenProperties DEF IndInv, OrderInv, ContentInv, TypeInv, LineType
  <2>. QED
    BY <2>1, <2>2
<1>12. \A j \in 1 .. Len(c) : c[j].n # 0 => /\ c[j].from # p
                                            /\ \A i \in 1 .. Len(printed[p]) : Ordered(printed[p][i], c[j])
  BY <1>0 DEF IndInv, OrderInv, ReaderInv, Loop
<1>13. \A j \in 1 .. Len(c) : Sent(c[j]) /\ (j > 1 /\ c[j].n # 0 => Ordered(c[1], c[j]))
  BY <1>1, <1>2 DEF IndInv, OrderInv, ContentInv
<1>14. ReaderInv'
  <2>. SUFFICES ASSUME NEW r \in Procs, pc'[r] \in Loop, NEW x, x = receive_queue(r)',
                       NEW j \in 1 .. Len(content'[x]), content'[x][j].n # 0
                PROVE  /\ content'[x][j].from # r
                       /\ \A i \in 1 .. Len(printed'[r]) : Ordered(printed'[r][i], content'[x][j])
    BY DEF ReaderInv, Ordered
  <2>1. x = receive_queue(r) /\ pc[r] \in Loop /\ x \in Queues
    BY <1>0, <1>4, <1>5, OpenQueues DEF Loop, IndInv
  <2>2. PICK k \in 1 .. Len(content[x]) : /\ content'[x][j] = content[x][k]
                                          /\ r = p => k > 1
    <3>1. CASE x = o
      <4>1. j + 1 \in 1 .. Len(c) /\ content'[x][j] = c[j + 1] /\ j + 1 > 1
        BY <3>1, <1>2, <1>3
      <4>. QED
        BY <3>1, <4>1
    <3>2. CASE x # o
      BY <2>1, <3>2, <1>3
    <3>. QED
      BY <3>1, <3>2
  <2>3. /\ content[x][k].from # r
        /\ \A i \in 1 .. Len(printed[r]) : Ordered(printed[r][i], content[x][k])
    BY <2>1, <2>2 DEF IndInv, OrderInv, ReaderInv
  <2>4. CASE r # p
    BY <2>2, <2>3, <2>4, <1>7
  <2>5. CASE r = p
    BY <2>1, <2>2, <2>3, <2>5, <1>2, <1>7, <1>13
  <2>. QED
    BY <2>4, <2>5
<1>15. PrintedInv'
  <2>. SUFFICES ASSUME NEW r \in Procs, NEW i \in 1 .. Len(printed'[r]),
                       NEW m, m = printed'[r][i]
                PROVE  /\ m.n # 0 /\ Sent(m)' /\ m.from # r
                       /\ \A j \in 1 .. Len(printed'[r]) :
                            i < j => Ordered(m, printed'[r][j])
    BY DEF PrintedInv, Ordered, Sent, At
  <2>0. m \in Messages
    BY <1>7, LenProperties
  <2>1. CASE r # p \/ Head(c) = END
    BY <2>0, <2>1, <1>7, <1>10 DEF IndInv, OrderInv, PrintedInv
  <2>2. CASE r = p /\ Head(c) # END
    <3>0. \A k \in 1 .. Len(printed[p]) :
             /\ printed[p][k].n # 0 /\ Sent(printed[p][k]) /\ printed[p][k].from # p
             /\ \A j \in 1 .. Len(printed[p]) : k < j => Ordered(printed[p][k], printed[p][j])
      BY DEF IndInv, OrderInv, PrintedInv
    <3>1. CASE i = Len(printed[p]) + 1
      <4>1. m = c[1] /\ m.n # 0 /\ 1 \in 1 .. Len(c)
        BY <2>2, <3>1, <1>2, <1>6, <1>7
      <4>. QED
        BY <2>0, <2>2, <3>1, <4>1, <1>7, <1>10, <1>12, <1>13
    <3>2. CASE i # Len(printed[p]) + 1
      <4>1. i \in 1 .. Len(printed[p]) /\ m = printed[p][i]
        BY <2>2, <3>2, <1>7
      <4>2. ASSUME NEW j \in 1 .. Len(printed'[p]), i < j PROVE Ordered(m, printed'[p][j])
        <5>1. CASE j = Len(printed[p]) + 1
          BY <2>2, <4>1, <5>1, <1>2, <1>6, <1>7, <1>12
        <5>2. CASE j # Len(printed[p]) + 1
          BY <2>2, <3>0, <4>1, <4>2, <5>2, <1>7
        <5>. QED
          BY <5>1, <5>2
      <4>. QED
        BY <2>0, <2>2, <3>0, <4>1, <4>2, <1>10
    <3>. QED
      BY <3>1, <3>2
  <2>. QED
    BY <2>1, <2>2
<1>. QED
  BY <1>4, <1>8, <1>9, <1>11, <1>14, <1>15 DEF IndInv, TypeInv, OrderInv

\* The user's line gets a number that no line has had.
LEMMA InputStep ==
  ASSUME IndInv, NEW p \in Procs, Input(p)
  PROVE  IndInv'
<1>1. asleep' = asleep \ {p} /\ pc[p] = "input" /\ UNCHANGED <<names, printed>>
  BY DEF Input, At, IndInv, TypeInv, PcType
<1>2. CASE \E l \in {"send_end", "check"} : Goto(p, l) /\ UNCHANGED <<lines, input>>
  BY <1>1, <1>2, QuietStep DEF Loop
<1>3. CASE lines' = lines + 1 /\ input' = [input EXCEPT ![p] = lines'] /\ Goto(p, "send")
  <2>1. /\ PcType' /\ QueueType' /\ OpenInv' /\ NameInv'
        /\ \A r \in Procs : receive_queue(r)' = receive_queue(r)
    BY <1>1, <1>3, LoopStep DEF names, Loop
  <2>2. pc'[p] = "send" /\ \A r \in Procs : r # p => pc'[r] = pc[r]
    BY <1>3, PcMoves DEF IndInv
  <2>3. LineType' /\ input[p] < input'[p] /\ input'[p] # 0 /\ \A r \in Procs \ {p} : input'[r] = input[r]
    BY <1>1, <1>3 DEF IndInv, TypeInv, LineType, names
  <2>4. InputInv'
    BY <1>1, <2>2, <2>3 DEF IndInv, OrderInv, InputInv, At, Loop, Opening
  <2>5. \A m \in Messages : Sent(m) => Sent(m)'
    <3>. SUFFICES ASSUME NEW m \in Messages, Sent(m), m.n # 0 PROVE Sent(m)'
      BY DEF Sent
    <3>1. m.n \in Nat /\ m.from \in Procs /\ input[m.from] \in Nat /\ input'[m.from] \in Nat
      BY <2>3, MessageTypes DEF IndInv, TypeInv, LineType
    <3>2. CASE m.from = p
      BY <3>1, <3>2, <2>3 DEF Sent, At
    <3>3. CASE m.from # p
      BY <3>1, <3>3, <2>2, <2>3 DEF Sent, At
    <3>. QED
      BY <3>2, <3>3
  <2>6. ContentInv'
    BY <1>1, <2>5, LenProperties DEF IndInv, OrderInv, ContentInv, TypeInv, LineType, names, Ordered
  <2>7. ReaderInv'
    BY <1>1, <2>1, <2>2 DEF IndInv, OrderInv, ReaderInv, names, Ordered, Loop
  <2>8. PrintedInv'
    BY <1>1, <2>5, LenProperties DEF IndInv, OrderInv, PrintedInv, TypeInv, LineType, Ordered
  <2>. QED
    BY <2>1, <2>3, <2>4, <2>6, <2>7, <2>8 DEF IndInv, TypeInv, OrderInv
<1>. QED
  BY <1>2, <1>3 DEF Input, At

\* What a message has to satisfy to be put first or last into the queue p sends to.
LEMMA SendStep ==
  ASSUME IndInv, NEW p \in Procs, pc[p] \in {"send", "send_end"}, NEW m \in Messages,
         NEW l \in {"check", "cleanup"}, Goto(p, l), asleep' = asleep \ {p},
         UNCHANGED <<name, queue, input, printed, lines>>,
         NEW c \in Seq(Messages), content' = [content EXCEPT ![send_queue(p)] = c],
         \/ m.n = 0 /\ c = <<m>> \o content[send_queue(p)]
         \/ /\ pc[p] = "send" /\ m.from = p /\ m.n = input[p]
            /\ c = Append(content[send_queue(p)], m)
  PROVE  IndInv'
<1>. DEFINE o == send_queue(p)
<1>1. /\ PcType' /\ QueueType' /\ OpenInv' /\ NameInv'
      /\ \A r \in Procs : receive_queue(r)' = receive_queue(r)
  BY LoopStep DEF Loop
<1>2. pc'[p] = l /\ \A r \in Procs : r # p => pc'[r] = pc[r]
  BY PcMoves DEF IndInv
<1>3. o \in Queues /\ o # receive_queue(p)
  BY OpenQueues DEF IndInv, Loop
<1>4. /\ content'[o] = c /\ content[o] \in Seq(Messages)
      /\ \A x \in Queues \ {o} : content'[x] = content[x]
  BY <1>3 DEF IndInv, TypeInv, LineType
<1>5. LineType'
  BY DEF IndInv, TypeInv, LineType
<1>6. InputInv'
  BY <1>2 DEF IndInv, OrderInv, InputInv, At, Opening
<1>7. \A x \in Messages : Sent(x) => Sent(x)'
  BY <1>2, MessageTypes DEF Sent, At
<1>8. Sent(m)'
  BY <1>2, MessageTypes DEF Sent, At, IndInv, TypeInv, LineType
<1>9. \A x \in Messages : Sent(x) /\ m.n # 0 => Ordered(x, m)
  <2>. SUFFICES ASSUME NEW x \in Messages, Sent(x), x.n # 0, x.from = p, m.n # 0
                PROVE  x.n < m.n
    BY MessageTypes DEF Ordered
  <2>. QED
    BY MessageTypes DEF Sent, At
<1>10. /\ Len(content[o]) \in Nat /\ Len(c) = Len(content[o]) + 1
       /\ \/ /\ m.n = 0 /\ c[1] = m
             /\ \A k \in 2 .. Len(content[o]) + 1 : c[k] = content[o][k - 1]
          \/ /\ m.n # 0 /\ m.from = p /\ c[Len(content[o]) + 1] = m
             /\ \A k \in 1 .. Len(content[o]) : c[k] = content[o][k]
  BY <1>4, PutFirst, PutLast, MessageTypes DEF IndInv, OrderInv, InputInv, At
<1>11. \A k \in 1 .. Len(content[o]) : content[o][k] \in Messages /\ Sent(content[o][k])
  BY <1>3, <1>4, LenProperties DEF IndInv, OrderInv, ContentInv
<1>12. ContentInv'
  <2>. SUFFICES ASSUME NEW x \in Queues, NEW i \in 1 .. Len(content'[x]),
                       NEW e, e = content'[x][i]
                PROVE  /\ Sent(e)'
                       /\ \A j \in 1 .. Len(content'[x]) :
                            i < j /\ content'[x][j].n # 0 => Ordered(e, content'[x][j])
    BY DEF ContentInv, Ordered, Sent, At
  <2>1. CASE x # o
    BY <2>1, <1>4, <1>7, LenProperties DEF IndInv, OrderInv, ContentInv, TypeInv, LineType
  <2>2. CASE x = o
    <3>0. \A a, b \in 1 .. Len(content[o]) : a < b /\ content[o][b].n # 0 => Ordered(content[o][a], content[o][b])
      BY <1>3 DEF IndInv, OrderInv, ContentInv
    <3>1. CASE /\ m.n = 0 /\ c[1] = m
               /\ \A k \in 2 .. Len(content[o]) + 1 : c[k] = content[o][k - 1]
      <4>1. Sent(e)'
        <5>1. CASE i = 1
          BY <5>1, <2>2, <3>1, <1>4, <1>8 DEF Sent, At
        <5>2. CASE i # 1
          BY <5>2, <2>2, <3>1, <1>4, <1>7, <1>10, <1>11
        <5>. QED
          BY <5>1, <5>2
      <4>2. ASSUME NEW j \in 1 .. Len(c), i < j, c[j].n # 0 PROVE Ordered(e, c[j])
        <5>1. CASE i = 1
          BY <5>1, <2>2, <3>1, <1>4 DEF Ordered
        <5>2. CASE i # 1
          <6>1. i - 1 \in 1 .. Len(content[o]) /\ j - 1 \in 1 .. Len(content[o]) /\ i - 1 < j - 1
            BY <5>2, <4>2, <2>2, <1>4, <1>10
          <6>2. e = content[o][i - 1] /\ c[j] = content[o][j - 1]
            BY <5>2, <4>2, <2>2, <3>1, <1>4, <1>10
          <6>. QED
            BY <4>2, <6>1, <6>2, <3>0
        <5>. QED
          BY <5>1, <5>2
      <4>. QED
        BY <2>2, <4>1, <4>2, <1>4
    <3>2. CASE /\ m.n # 0 /\ m.from = p /\ c[Len(content[o]) + 1] = m
               /\ \A k \in 1 .. Len(content[o]) : c[k] = content[o][k]
      <4>1. Sent(e)'
        <5>1. CASE i = Len(content[o]) + 1
          BY <5>1, <2>2, <3>2, <1>4, <1>8 DEF Sent, At
        <5>2. CASE i # Len(content[o]) + 1
          BY <5>2, <2>2, <3>2, <1>4, <1>7, <1>10, <1>11
        <5>. QED
          BY <5>1, <5>2
      <4>2. ASSUME NEW j \in 1 .. Len(c), i < j, c[j].n # 0 PROVE Ordered(e, c[j])
        <5>1. CASE j = Len(content[o]) + 1
          BY <5>1, <4>2, <2>2, <3>2, <1>9, <1>4, <1>10, <1>11
        <5>2. CASE j # Len(content[o]) + 1
          BY <5>2, <4>2, <2>2, <3>0, <3>2, <1>4, <1>10
        <5>. QED
          BY <5>1, <5>2
      <4>. QED
        BY <2>2, <4>1, <4>2, <1>4
    <3>. QED
      BY <3>1, <3>2, <1>10
  <2>. QED
    BY <2>1, <2>2
<1>13. PrintedInv'
  BY <1>7, LenProperties DEF IndInv, OrderInv, PrintedInv, TypeInv, LineType, Ordered
<1>14. ReaderInv'
  <2>. SUFFICES ASSUME NEW r \in Procs, pc'[r] \in Loop, NEW x, x = receive_queue(r)',
                       NEW j \in 1 .. Len(content'[x]), content'[x][j].n # 0
                PROVE  /\ content'[x][j].from # r
                       /\ \A i \in 1 .. Len(printed[r]) : Ordered(printed[r][i], content'[x][j])
    BY DEF ReaderInv, Ordered
  <2>1. x = receive_queue(r) /\ pc[r] \in Loop /\ x \in Queues
    BY <1>1, <1>2, OpenQueues DEF Loop, IndInv
  <2>2. \A k \in 1 .. Len(content[x]) : content[x][k].n # 0 =>
             /\ content[x][k].from # r
             /\ \A i \in 1 .. Len(printed[r]) : Ordered(printed[r][i], content[x][k])
    BY <2>1 DEF IndInv, OrderInv, ReaderInv
  <2>3. CASE x # o
    BY <2>1, <2>2, <2>3, <1>4
  <2>4. CASE x = o
    <3>1. CASE \E k \in 1 .. Len(content[o]) : c[j] = content[o][k]
      BY <2>2, <2>4, <3>1, <1>4
    <3>2. CASE c[j] = m /\ m.from = p
      <4>1. \A i \in 1 .. Len(printed[r]) : printed[r][i] \in Messages /\ Sent(printed[r][i])
        BY LenProperties DEF IndInv, OrderInv, PrintedInv, TypeInv, LineType
      <4>. QED
        BY <4>1, <2>1, <2>4, <3>2, <1>3, <1>4, <1>9
    <3>. QED
      BY <3>1, <3>2, <2>4, <1>4, <1>10
  <2>. QED
    BY <2>3, <2>4
<1>. QED
  BY <1>1, <1>5, <1>6, <1>12, <1>13, <1>14 DEF IndInv, TypeInv, OrderInv

LEMMA SendLineStep ==
  ASSUME IndInv, NEW p \in Procs, SendLine(p)
  PROVE  IndInv'
<1>1. send_queue(p) \in Queues
  BY OpenQueues DEF SendLine, At, IndInv, Loop
<1>2. Line(p, input[p]) \in Messages
  BY MessageTypes DEF SendLine, At, IndInv, TypeInv, LineType, OrderInv, InputInv
<1>3. Append(content[send_queue(p)], Line(p, input[p])) \in Seq(Messages)
  BY <1>1, <1>2, PutLast DEF IndInv, TypeInv, LineType
<1>4. content' = [content EXCEPT ![send_queue(p)] = Append(content[send_queue(p)], Line(p, input[p]))]
  BY DEF SendLine
<1>. QED
  BY <1>2, <1>3, <1>4, SendStep DEF SendLine, At, locals, bounds, Line

LEMMA SendEndStep ==
  ASSUME IndInv, NEW p \in Procs, SendEnd(p)
  PROVE  IndInv'
<1>1. send_queue(p) \in Queues
  BY OpenQueues DEF SendEnd, At, IndInv, Loop
<1>3. <<END>> \o content[send_queue(p)] \in Seq(Messages)
  BY <1>1, MessageTypes, PutFirst DEF IndInv, TypeInv, LineType
<1>4. content' = [content EXCEPT ![send_queue(p)] = <<END>> \o content[send_queue(p)]]
  BY DEF SendEnd
<1>. QED
  BY <1>3, <1>4, MessageTypes, SendStep DEF SendEnd, At, locals, bounds

LEMMA CleanupStep ==
  ASSUME IndInv, NEW p \in Procs, Cleanup(p)
  PROVE  IndInv'
<1>. DEFINE l == IF creator(p) THEN "unlink2" ELSE "done"
<1>0. /\ pc[p] = "cleanup" /\ Goto(p, l) /\ Close(p)
      /\ name' = IF creator(p) THEN [name EXCEPT ![1] = NoQueue] ELSE name
      /\ UNCHANGED <<asleep, input, printed, lines>>
  BY DEF Cleanup, At, locals, bounds
<1>1. /\ DOMAIN name' = {1, 2} /\ name'[2] = name[2]
      /\ name'[1] = IF creator(p) THEN NoQueue ELSE name[1]
  BY <1>0 DEF IndInv, TypeInv, QueueType
<1>2. p \notin asleep
  BY <1>0 DEF IndInv, TypeInv, PcType
<1>3. /\ TypeInv' /\ OpenInv' /\ OrderInv' /\ pc'[p] = l
      /\ \A r \in Procs \ {p} : pc'[r] = pc[r] /\ queue'[r] = queue[r]
  BY <1>0, <1>1, <1>2, CloseStep DEF Ended
<1>4. \A r \in Procs \ {p} : creator(r)' = creator(r)
  BY <1>3 DEF creator
<1>5. /\ name[2] # NoQueue => name[2].owner \in Procs
      /\ name[1] # NoQueue => name[1].owner \in Procs
  BY QueueTypes DEF IndInv, TypeInv, QueueType
<1>6. \A r \in Procs, q \in Procs : Queue(q, 1) = Queue(r, 1) => q = r
  BY DEF Queue
<1>7. creator(p) => name[1] = Queue(p, 1) /\ name[2] = Queue(p, 2)
  BY <1>0 DEF IndInv, NameInv, Loop
<1>8. NameInv'
  BY <1>0, <1>1, <1>3, <1>4, <1>5, <1>6, <1>7, QueueTypes DEF IndInv, NameInv, At, Loop
<1>. QED
  BY <1>3, <1>8 DEF IndInv

LEMMA UnlinkSecondStep ==
  ASSUME IndInv, NEW p \in Procs, UnlinkSecond(p)
  PROVE  IndInv'
<1>0. /\ pc[p] = "unlink2" /\ Goto(p, "done") /\ Close(p)
      /\ name' = [name EXCEPT ![2] = NoQueue] /\ name[2] = Queue(p, 2)
      /\ UNCHANGED <<asleep, input, printed, lines>>
  BY DEF UnlinkSecond, At, locals, bounds, IndInv, NameInv
<1>1. DOMAIN name' = {1, 2} /\ name'[2] = NoQueue /\ name'[1] = name[1]
  BY <1>0 DEF IndInv, TypeInv, QueueType
<1>2. p \notin asleep
  BY <1>0 DEF IndInv, TypeInv, PcType
<1>3. /\ TypeInv' /\ OpenInv' /\ OrderInv' /\ pc'[p] = "done"
      /\ \A r \in Procs \ {p} : pc'[r] = pc[r] /\ queue'[r] = queue[r]
  BY <1>0, <1>1, <1>2, CloseStep DEF Ended
<1>4. \A r \in Procs \ {p} : creator(r)' = creator(r)
  BY <1>3 DEF creator
<1>5. name[1] # NoQueue => name[1].owner \in Procs
  BY QueueTypes DEF IndInv, TypeInv, QueueType
<1>6. \A r \in Procs, q \in Procs : Queue(q, 2) = Queue(r, 2) => q = r
  BY DEF Queue
<1>8. NameInv'
  BY <1>0, <1>1, <1>3, <1>4, <1>5, <1>6 DEF IndInv, NameInv, At, Loop
<1>. QED
  BY <1>3, <1>8 DEF IndInv

-----------------------------------------------------------------------------
(* The actions: signals *)

LEMMA KillStep ==
  ASSUME IndInv, NEW p \in Procs, Kill(p)
  PROVE  IndInv'
BY GivesUp DEF Kill, Ended, locals

LEMMA CtrlCStep ==
  ASSUME IndInv, NEW p \in Procs, CtrlC(p)
  PROVE  IndInv'
<1>1. CASE pc[p] \in {"create2", "open1", "open2"}
  <2>1. p \notin asleep
    BY <1>1 DEF IndInv, TypeInv, PcType
  <2>. QED
    BY <1>1, <2>1, GivesUp DEF CtrlC, Ended, locals
<1>2. CASE pc[p] \notin {"create2", "open1", "open2"} /\ p \in asleep
  <2>1. pc[p] \in {"poll", "receive", "send", "send_end"}
    BY <1>2 DEF IndInv, TypeInv, PcType
  <2>2. PICK l \in {"send_end", "input", "check", "cleanup"} : Goto(p, l)
    BY <1>2, <2>1 DEF CtrlC, AfterError, At
  <2>. QED
    BY <1>2, <2>1, <2>2, QuietStep DEF CtrlC, Loop, names, locals
<1>3. CASE pc[p] \notin {"create2", "open1", "open2"} /\ p \notin asleep
  <2>1. UNCHANGED <<pc, asleep, name, queue, content, input, printed, lines>>
    BY <1>3 DEF CtrlC, locals
  <2>2. \A m : Sent(m)' <=> Sent(m)
    BY <2>1 DEF Sent, At
  <2>3. TypeInv' /\ OpenInv' /\ NameInv'
    BY <2>1 DEF IndInv, TypeInv, PcType, QueueType, LineType, OpenInv, NameInv, At, creator
  <2>4. OrderInv'
    <3>1. InputInv' /\ ContentInv'
      BY <2>1, <2>2 DEF IndInv, OrderInv, InputInv, ContentInv, At, Ordered
    <3>2. ReaderInv'
      BY <2>1 DEF IndInv, OrderInv, ReaderInv, receive_queue, creator, Ordered
    <3>3. PrintedInv'
      BY <2>1, <2>2 DEF IndInv, OrderInv, PrintedInv, Ordered
    <3>. QED
      BY <3>1, <3>2, <3>3 DEF OrderInv
  <2>. QED
    BY <2>3, <2>4 DEF IndInv
<1>. QED
  BY <1>1, <1>2, <1>3

-----------------------------------------------------------------------------
(* The theorems *)

LEMMA NextInv == IndInv /\ [Next]_vars => IndInv'
<1>. SUFFICES ASSUME IndInv, [Next]_vars PROVE IndInv'
  OBVIOUS
<1>1. ASSUME NEW p \in Procs, CreateFirst(p) \/ Step(p) \/ Poll(p) \/ CtrlC(p) \/ Kill(p)
      PROVE  IndInv'
  <2>1. CASE CreateFirst(p)
    BY <2>1, CreateFirstStep
  <2>2. CASE Step(p)
    BY <2>2, CreateSecondStep, OpenExistingStep, CheckFlagStep, SleepSteps, ReceiveStep,
       InputStep, SendLineStep, SendEndStep, SendTimeoutStep, CleanupStep, UnlinkSecondStep
       DEF Step
  <2>3. CASE Poll(p) \/ CtrlC(p) \/ Kill(p)
    BY <2>3, PollStep, CtrlCStep, KillStep
  <2>. QED
    BY <1>1, <2>1, <2>2, <2>3
<1>2. CASE UNCHANGED vars
  <2>1. UNCHANGED <<pc, asleep, name, queue, content, input, printed, lines>>
    BY <1>2 DEF vars, names, locals, bounds
  <2>2. \A m : Sent(m)' <=> Sent(m)
    BY <2>1 DEF Sent, At
  <2>3. TypeInv' /\ OpenInv' /\ NameInv'
    BY <2>1 DEF IndInv, TypeInv, PcType, QueueType, LineType, OpenInv, NameInv, At, creator
  <2>4. OrderInv'
    <3>1. InputInv' /\ ContentInv'
      BY <2>1, <2>2 DEF IndInv, OrderInv, InputInv, ContentInv, At, Ordered
    <3>2. ReaderInv'
      BY <2>1 DEF IndInv, OrderInv, ReaderInv, receive_queue, creator, Ordered
    <3>3. PrintedInv'
      BY <2>1, <2>2 DEF IndInv, OrderInv, PrintedInv, Ordered
    <3>. QED
      BY <3>1, <3>2, <3>3 DEF OrderInv
  <2>. QED
    BY <2>3, <2>4 DEF IndInv
<1>. QED
  BY <1>1, <1>2 DEF Next

LEMMA Invariance == Spec => []IndInv
BY InitInv, NextInv, PTL DEF Spec

\* What a process prints of another is in the order in which it was typed, each line
\* at most once, and nothing is its own: however many processes share the two
\* queues, and whatever is lost, killed or removed (chat.c's loop and mq_send).
THEOREM PrintsInOrder == Spec => []PrintedInOrder
<1>1. IndInv => PrintedInOrder
  <2>. SUFFICES ASSUME IndInv, NEW p \in Procs, NEW i \in DOMAIN printed[p],
                       NEW j \in DOMAIN printed[p]
                PROVE  /\ printed[p][i].from # p
                       /\ i < j /\ printed[p][i].from = printed[p][j].from
                            => printed[p][i].n < printed[p][j].n
    BY DEF PrintedInOrder
  <2>1. DOMAIN printed[p] = 1 .. Len(printed[p])
    BY LenProperties DEF IndInv, TypeInv, LineType
  <2>. QED
    BY <2>1 DEF IndInv, OrderInv, PrintedInv, Ordered
<1>. QED
  BY <1>1, Invariance, PTL

\* A name that leads to a queue belongs to a process that will remove it, or was
\* killed: neither way out of the creation, nor another chat that starts while the
\* two names go, leaves a queue without an owner.
THEOREM NamesAreOwned == Spec => []NameHasOwner
<1>1. IndInv => NameHasOwner
  BY DEF IndInv, NameInv, NameHasOwner, At, Loop
<1>. QED
  BY <1>1, Invariance, PTL

\* Only its owner takes a name away, by a step of its own: unlinking by name never
\* hits the queue of a later chat.
THEOREM UnlinksItsOwn == Spec => OwnUnlink
<1>1. IndInv /\ [Next]_vars =>
        [\A k \in {1, 2} :
            name[k] # NoQueue /\ name'[k] # name[k] =>
                /\ name'[k] = NoQueue
                /\ pc'[name[k].owner] # pc[name[k].owner]]_vars
  <2>. SUFFICES ASSUME IndInv, NEW p \in Procs,
                       CreateFirst(p) \/ Step(p) \/ Poll(p) \/ CtrlC(p) \/ Kill(p)
                PROVE  \A k \in {1, 2} :
                          name[k] # NoQueue /\ name'[k] # name[k] =>
                              /\ name'[k] = NoQueue
                              /\ pc'[name[k].owner] # pc[name[k].owner]
    BY DEF Next
  <2>0. \A r \in Procs, k \in {1, 2} : Queue(r, k).owner = r
    BY QueueTypes
  <2>1. CASE CreateFirst(p)
    BY <2>1 DEF CreateFirst, IndInv, TypeInv, QueueType
  <2>2. CASE CreateSecond(p)
    <3>1. pc[p] = "create2" /\ name[1] = Queue(p, 1)
      BY <2>2, QueueTypes DEF CreateSecond, IndInv, OpenInv, NameInv, At, creator
    <3>2. \A l : Goto(p, l) => pc'[p] = l
      BY PcMoves DEF IndInv
    <3>. QED
      BY <2>0, <2>2, <3>1, <3>2 DEF CreateSecond, IndInv, TypeInv, QueueType
  <2>3. CASE Cleanup(p)
    <3>1. pc[p] = "cleanup" /\ (creator(p) => name[1] = Queue(p, 1))
      BY <2>3 DEF Cleanup, IndInv, NameInv, At, Loop
    <3>2. \A l : Goto(p, l) => pc'[p] = l
      BY PcMoves DEF IndInv
    <3>. QED
      BY <2>0, <2>3, <3>1, <3>2 DEF Cleanup, IndInv, TypeInv, QueueType
  <2>4. CASE UnlinkSecond(p)
    <3>1. pc[p] = "unlink2" /\ name[2] = Queue(p, 2)
      BY <2>4 DEF UnlinkSecond, IndInv, NameInv, At
    <3>2. \A l : Goto(p, l) => pc'[p] = l
      BY PcMoves DEF IndInv
    <3>. QED
      BY <2>0, <2>4, <3>1, <3>2 DEF UnlinkSecond, IndInv, TypeInv, QueueType
  <2>5. CASE OpenExisting(p, 1) \/ OpenExisting(p, 2)
    <3>1. UNCHANGED name
      BY <2>5 DEF OpenExisting
    <3>. QED
      BY <3>1
  <2>6. CASE \/ CheckFlag(p) \/ PollSleeps(p) \/ Receive(p) \/ ReceiveSleeps(p) \/ Input(p)
             \/ SendLine(p) \/ SendEnd(p) \/ SendSleeps(p) \/ SendTimeout(p)
             \/ Poll(p) \/ CtrlC(p) \/ Kill(p)
    <3>1. UNCHANGED name
      BY <2>6 DEF CheckFlag, PollSleeps, Receive, ReceiveSleeps, Input, SendLine, SendEnd,
                  SendSleeps, SendTimeout, Poll, CtrlC, Kill, names
    <3>. QED
      BY <3>1
  <2>. QED
    BY <2>1, <2>2, <2>3, <2>4, <2>5, <2>6 DEF Step
<1>. QED
  BY <1>1, Invariance, PTL DEF Spec, OwnUnlink
=============================================================================

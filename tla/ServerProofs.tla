----------------------------- MODULE ServerProofs -----------------------------
(***************************************************************************)
(* Safety of UdpEcho, QueueServer and PriorityQueue, as Concurrent runs    *)
(* them.                                                                   *)
(*                                                                         *)
(* UdpEcho, for any clients, addresses, lines and faults: the invariant    *)
(* follows a line from the client that sends it to the server that counts  *)
(* it; what is under way from an address continues the server's count up   *)
(* to what the client has sent.                                            *)
(*                                                                         *)
(* QueueServer, for any clients and numbers, lists and queues of any size, *)
(* any number of lines and kills.                                          *)
(*                                                                         *)
(* PriorityQueue, for any requests and any places of memory: it implements *)
(* PriorityService.                                                        *)
(***************************************************************************)
EXTENDS Concurrent, TLAPS, SequenceTheorems, FiniteSetTheorems, FunctionTheorems,
        WellFoundedInduction

-----------------------------------------------------------------------------
(* Numbers and sequences *)

\* A set of natural numbers has a least element.
LEMMA NatMin ==
  ASSUME NEW T \in SUBSET Nat, T # {}
  PROVE  \E n \in T : \A m \in T : n <= m
<1>1. \E n \in T : \A m \in T : ~ (<<m, n>> \in OpToRel(<, Nat))
  BY WFMin, NatLessThanWellFounded
<1>2. PICK n \in T : \A m \in T : ~ (<<m, n>> \in OpToRel(<, Nat))
  BY <1>1
<1>3. ASSUME NEW m \in T PROVE ~ (m < n)
  <2>1. m \in Nat /\ n \in Nat
    OBVIOUS
  <2>2. <<m, n>> \notin OpToRel(<, Nat)
    BY <1>2
  <2>. QED
    BY <2>1, <2>2, Zenon DEF OpToRel
<1>. QED
  BY <1>3

\* The place of an element when the one at k is taken out, and the place it had before.
New(i, k) == IF i < k THEN i ELSE i - 1
Old(i, k) == IF i < k THEN i ELSE i + 1

\* What is left of a sequence, in the same order.
LEMMA Taken ==
  ASSUME NEW S, NEW s \in Seq(S), NEW k \in 1 .. Len(s), NEW r, r = Server!RemoveAt(s, k)
  PROVE  /\ r \in Seq(S) /\ Len(s) \in Nat /\ Len(r) = Len(s) - 1
         /\ \A i \in 1 .. Len(r) : Old(i, k) \in 1 .. Len(s) /\ Old(i, k) # k /\ r[i] = s[Old(i, k)]
         /\ \A i, j \in 1 .. Len(r) : i < j <=> Old(i, k) < Old(j, k)
         /\ \A i \in 1 .. Len(s) : i # k => New(i, k) \in 1 .. Len(r) /\ r[New(i, k)] = s[i]
<1>. DEFINE a == SubSeq(s, 1, k - 1)
            b == SubSeq(s, k + 1, Len(s))
<1>1. Len(s) \in Nat /\ \A i \in 1 .. Len(s) : s[i] \in S
  BY LenProperties, ElementOfSeq
<1>2. /\ a \in Seq(S) /\ Len(a) = k - 1 /\ \A i \in 1 .. k - 1 : a[i] = s[i]
  <2>1. \A i \in 1 .. k - 1 : s[i] \in S
    BY <1>1
  <2>2. /\ SubSeq(s, 1, k - 1) \in Seq(S)
        /\ Len(SubSeq(s, 1, k - 1)) = IF 1 <= k - 1 THEN k - 1 - 1 + 1 ELSE 0
        /\ \A i \in 1 .. k - 1 - 1 + 1 : SubSeq(s, 1, k - 1)[i] = s[1 + i - 1]
    BY <1>1, <2>1, SubSeqProperties
  <2>. QED
    BY <1>1, <2>2
<1>3. /\ b \in Seq(S) /\ Len(b) = Len(s) - k /\ \A i \in 1 .. Len(s) - k : b[i] = s[k + i]
  <2>1. \A i \in k + 1 .. Len(s) : s[i] \in S
    BY <1>1
  <2>2. /\ SubSeq(s, k + 1, Len(s)) \in Seq(S)
        /\ Len(SubSeq(s, k + 1, Len(s))) = IF k + 1 <= Len(s) THEN Len(s) - (k + 1) + 1 ELSE 0
        /\ \A i \in 1 .. Len(s) - (k + 1) + 1 : SubSeq(s, k + 1, Len(s))[i] = s[k + 1 + i - 1]
    BY <1>1, <2>1, SubSeqProperties
  <2>. QED
    BY <1>1, <2>2
<1>4. r = a \o b
  BY DEF Server!RemoveAt
<1>. HIDE DEF a, b
<1>5. /\ r \in Seq(S) /\ Len(r) = Len(a) + Len(b)
      /\ \A i \in 1 .. Len(a) : r[i] = a[i]
      /\ \A i \in Len(a) + 1 .. Len(a) + Len(b) : r[i] = b[i - Len(a)]
  <2>1. /\ a \o b \in Seq(S) /\ Len(a \o b) = Len(a) + Len(b)
        /\ \A i \in 1 .. Len(a) + Len(b) : (a \o b)[i] = IF i <= Len(a) THEN a[i] ELSE b[i - Len(a)]
    BY <1>2, <1>3, ConcatProperties
  <2>2. Len(a) \in Nat /\ Len(b) \in Nat
    BY <1>2, <1>3, LenProperties
  <2>. QED
    BY <1>4, <2>1, <2>2
<1>6. \A i \in 1 .. Len(s) - 1 : r[i] = s[Old(i, k)]
  <2>1. \A i \in 1 .. Len(s) - 1 : i < k => r[i] = s[i]
    BY <1>1, <1>2, <1>5
  <2>2. ASSUME NEW i \in 1 .. Len(s) - 1, ~(i < k) PROVE r[i] = s[i + 1]
    <3>1. r[i] = b[i - (k - 1)] /\ i - (k - 1) \in 1 .. Len(s) - k
      BY <1>1, <1>2, <1>3, <1>5, <2>2
    <3>2. b[i - (k - 1)] = s[k + (i - (k - 1))] /\ k + (i - (k - 1)) = i + 1
      BY <1>1, <1>3, <3>1
    <3>. QED
      BY <3>1, <3>2
  <2>. QED
    BY <2>1, <2>2 DEF Old
<1>7. Len(r) = Len(s) - 1
  BY <1>1, <1>2, <1>3, <1>5
<1>8. \A i \in 1 .. Len(s) : i # k => New(i, k) \in 1 .. Len(r) /\ Old(New(i, k), k) = i
  BY <1>1, <1>7 DEF Old, New
<1>9. \A i \in 1 .. Len(s) : i # k => r[New(i, k)] = s[i]
  BY <1>6, <1>7, <1>8
<1>10. /\ \A i \in 1 .. Len(r) : Old(i, k) \in 1 .. Len(s) /\ Old(i, k) # k
       /\ \A i, j \in 1 .. Len(r) : i < j <=> Old(i, k) < Old(j, k)
       /\ \A i, j \in 1 .. Len(s) : i # k /\ j # k /\ i < j => New(i, k) < New(j, k)
  BY <1>1, <1>7 DEF Old, New
<1>. QED
  BY <1>1, <1>5, <1>6, <1>7, <1>8, <1>9, <1>10

\* A sequence with an element more.
LEMMA Added ==
  ASSUME NEW S, NEW s \in Seq(S), NEW e \in S, NEW r, r = Append(s, e)
  PROVE  /\ r \in Seq(S) /\ Len(s) \in Nat /\ Len(r) = Len(s) + 1
         /\ \A i \in 1 .. Len(s) : r[i] = s[i]
         /\ r[Len(s) + 1] = e
  BY AppendProperties, LenProperties

\* The first element of a nonempty sequence, and the rest.
LEMMA Rest ==
  ASSUME NEW S, NEW s \in Seq(S), s # <<>>
  PROVE  /\ Head(s) = s[1] /\ Tail(s) \in Seq(S) /\ Len(s) \in Nat \ {0}
         /\ Len(Tail(s)) = Len(s) - 1 /\ \A i \in 1 .. Len(s) - 1 : Tail(s)[i] = s[i + 1]
  BY HeadTailProperties, LenProperties, EmptySeq

LEMMA NoElements ==
  ASSUME NEW S
  PROVE  <<>> \in Seq(S) /\ Len(<<>>) = 0 /\ \A s \in Seq(S) : Len(s) \in Nat /\ (Len(s) = 0 => s = <<>>)
  BY EmptySeq, LenProperties

-----------------------------------------------------------------------------
(* The invariant *)

\* Which numbers are in use, and which messages there may be.
Started(c) == qsClient[c] # "new"
InUse      == {my_num[c] : c \in {d \in ServerClients : Started(d)}}
ServerMsg  == [type : Int, from : ServerClients, text : Nat]

ServerTypes ==
    /\ queue \in Seq(ServerMsg) /\ msgid \in BOOLEAN
    /\ qsServer \in {"up", "down", "gone"}
    /\ active \in Seq(Int) /\ qsTodo \in Seq(Int)
    /\ rcvbuf \in [type : Int, from : ServerClients \union {0}, text : Nat]
    /\ qsClient \in [ServerClients -> {"new", "select", "msgsnd", "drain", "out"}]
    /\ my_num \in [ServerClients -> Int] /\ draft \in [ServerClients -> Nat]
    /\ qsSends \in Nat /\ qsKills \in Nat
    /\ qsPrinted \in [ServerClients -> Seq(ServerMsg)]
    /\ owed \subseteq ServerClients \X ServerMsg

\* Who has started has a number, never the server's; who has not has printed nothing.
NumberInv ==
    \A c \in ServerClients : /\ Started(c) <=> my_num[c] # 10
                             /\ ~Started(c) => qsPrinted[c] = <<>>

\* The server's list, and what is left of it, has each number once, and only
\* numbers of clients.
ListInv ==
    /\ \A i \in 1 .. Len(active) : active[i] \in InUse
    /\ \A i, j \in 1 .. Len(active) : active[i] = active[j] => i = j
    /\ \A i \in 1 .. Len(qsTodo) : qsTodo[i] \in InUse
    /\ \A i, j \in 1 .. Len(qsTodo) : qsTodo[i] = qsTodo[j] => i = j
    /\ qsTodo # <<>> => rcvbuf.from \in ServerClients /\ Started(rcvbuf.from) /\ rcvbuf.text > 0

\* A message in the queue is a request to the server, or repeats a line for the
\* number of a client that its sender does not have.
QueueInv ==
    \A i \in 1 .. Len(queue) :
        /\ queue[i].type > 0 /\ Started(queue[i].from)
        /\ queue[i].type # 10 => /\ queue[i].text > 0 /\ queue[i].type \in InUse
                                 /\ queue[i].type # my_num[queue[i].from]

\* What the server was sent by a client comes in the order it was typed.
Request(i) == queue[i].type = 10 /\ queue[i].text > 0
RequestInv ==
    /\ \A i, j \in 1 .. Len(queue) :
         i < j /\ Request(i) /\ Request(j) /\ queue[i].from = queue[j].from
         => queue[i].text < queue[j].text
    /\ \A i \in 1 .. Len(queue) : queue[i].text <= qsSends
    /\ rcvbuf.text <= qsSends
    /\ \A c \in ServerClients : /\ draft[c] <= qsSends
                                /\ \A i \in 1 .. Len(qsPrinted[c]) : qsPrinted[c][i].text <= qsSends

\* t is a text of a client that the server has repeated, as far as one can still see.
Repeated(s, t) ==
    \/ rcvbuf.from = s /\ rcvbuf.text = t
    \/ \E i \in 1 .. Len(queue) : queue[i].type # 10 /\ queue[i].from = s /\ queue[i].text = t
    \/ \E c \in ServerClients : /\ Server!Proper(c)
                                /\ \E i \in 1 .. Len(qsPrinted[c]) :
                                     qsPrinted[c][i].from = s /\ qsPrinted[c][i].text = t

\* What a client has still to be heard with comes after what was repeated of it.
LaterInv ==
    \A s \in ServerClients :
        /\ \A t \in Nat : Repeated(s, t) =>
             /\ \A i \in 1 .. Len(queue) : Request(i) /\ queue[i].from = s => t < queue[i].text
             /\ qsClient[s] = "msgsnd" /\ draft[s] > 0 => t < draft[s]
        /\ qsClient[s] = "msgsnd" /\ draft[s] > 0 =>
             \A i \in 1 .. Len(queue) : Request(i) /\ queue[i].from = s => queue[i].text < draft[s]

\* Printed, then waiting for the client, then in the server's hand.
For(c, i) == queue[i].type = my_num[c]
PrintedUp(c) ==
    \A i, j \in 1 .. Len(qsPrinted[c]) :
        i < j /\ qsPrinted[c][i].from = qsPrinted[c][j].from
        => qsPrinted[c][i].text < qsPrinted[c][j].text
WaitingUp(c) ==
    \A i, j \in 1 .. Len(queue) :
        i < j /\ For(c, i) /\ For(c, j) /\ queue[i].from = queue[j].from
        => queue[i].text < queue[j].text
WaitingLater(c) ==
    \A i \in 1 .. Len(qsPrinted[c]), j \in 1 .. Len(queue) :
        For(c, j) /\ qsPrinted[c][i].from = queue[j].from
        => qsPrinted[c][i].text < queue[j].text
HandLatest(c) ==
    /\ \A i \in 1 .. Len(qsPrinted[c]) :
         qsPrinted[c][i].from = rcvbuf.from => qsPrinted[c][i].text < rcvbuf.text
    /\ \A i \in 1 .. Len(queue) :
         For(c, i) /\ queue[i].from = rcvbuf.from => queue[i].text < rcvbuf.text
InOrder(c) ==
    /\ \A i \in 1 .. Len(qsPrinted[c]) : qsPrinted[c][i].from # c
    /\ PrintedUp(c) /\ WaitingUp(c) /\ WaitingLater(c)
    /\ Server!Contains(qsTodo, my_num[c]) => HandLatest(c)

PrintedInv == \A c \in ServerClients : Server!Proper(c) => InOrder(c)

\* Nothing that is owed is lost.
Orderly == /\ qsServer = "up" /\ qsKills = 0
           /\ \A d \in ServerClients : Started(d) => my_num[d] > 0
OwedInv ==
    /\ qsKills = 0 => qsServer # "down"
    /\ \A x \in owed : Started(x[1]) /\ x[2].from # x[1]
    /\ Orderly => \A x \in owed : Server!Proper(x[1]) /\ qsClient[x[1]] # "out"
                                  => Server!Reached(x[1], x[2])

ServerInv == /\ ServerTypes /\ NumberInv /\ ListInv /\ QueueInv /\ RequestInv /\ LaterInv
             /\ PrintedInv /\ OwedInv

-----------------------------------------------------------------------------
(* What msgrcv takes *)

\* A message there is; for a type above 0 the first one of that type.
LEMMA PickTakes ==
  ASSUME ServerTypes, QueueInv, NEW type \in Int, NEW p, p = Server!Pick(type), p # 0
  PROVE  /\ msgid /\ p \in 1 .. Len(queue)
         /\ type > 0 => /\ queue[p].type = type
                        /\ \A j \in 1 .. Len(queue) : queue[j].type = type => p <= j
<1>. DEFINE fit  == {i \in DOMAIN queue : \/ type > 0 /\ queue[i].type = type
                                          \/ type = 0
                                          \/ type < 0 /\ queue[i].type <= -type}
            best == {i \in fit : type >= 0 \/ \A j \in fit : queue[i].type <= queue[j].type}
<1>1. /\ Len(queue) \in Nat /\ DOMAIN queue = 1 .. Len(queue)
      /\ \A i \in 1 .. Len(queue) : queue[i] \in ServerMsg /\ queue[i].type \in Nat
  <2>1. queue \in Seq(ServerMsg)
    BY DEF ServerTypes
  <2>2. Len(queue) \in Nat /\ DOMAIN queue = 1 .. Len(queue) /\ \A i \in 1 .. Len(queue) : queue[i] \in ServerMsg
    BY <2>1, LenProperties, ElementOfSeq
  <2>. QED
    BY <2>2 DEF ServerMsg, QueueInv
<1>2. msgid /\ fit # {} /\ p = CHOOSE i \in best : \A j \in best : i <= j
  <2>1. p = IF ~msgid \/ fit = {} THEN 0 ELSE CHOOSE i \in best : \A j \in best : i <= j
    BY Zenon DEF Server!Pick
  <2>. HIDE DEF fit, best
  <2>. QED
    BY <2>1
<1>3. best # {}
  <2>1. CASE type >= 0
    BY <1>2, <2>1
  <2>2. CASE ~(type >= 0)
    <3>. DEFINE T == {queue[i].type : i \in fit}
    <3>1. T \in SUBSET Nat /\ T # {}
      BY <1>1, <1>2
    <3>2. PICK t \in T : \A u \in T : t <= u
      BY <3>1, NatMin
    <3>3. PICK i \in fit : t = queue[i].type
      BY <3>2
    <3>4. i \in best
      BY <3>2, <3>3
    <3>. QED
      BY <3>4
  <2>. QED
    BY <2>1, <2>2
<1>4. best \in SUBSET Nat
  BY <1>1
<1>5. \E i \in best : \A j \in best : i <= j
  BY <1>3, <1>4, NatMin
<1>6. p \in best /\ \A j \in best : p <= j
  BY <1>2, <1>5
<1>7. p \in 1 .. Len(queue)
  BY <1>1, <1>6
<1>8. ASSUME type > 0
      PROVE  queue[p].type = type /\ \A j \in 1 .. Len(queue) : queue[j].type = type => p <= j
  BY <1>1, <1>6, <1>8
<1>. QED
  BY <1>2, <1>7, <1>8

-----------------------------------------------------------------------------
(* The first state *)

LEMMA ServerInit ==
  ASSUME Init
  PROVE  ServerInv
<1>1. /\ queue = <<>> /\ msgid = TRUE /\ qsServer = "up" /\ active = <<>> /\ qsTodo = <<>>
      /\ rcvbuf = [type |-> 10, from |-> 0, text |-> 0]
      /\ qsClient = [c \in ServerClients |-> "new"] /\ my_num = [c \in ServerClients |-> 10]
      /\ draft = [c \in ServerClients |-> 0] /\ qsSends = 0 /\ qsKills = 0
      /\ qsPrinted = [c \in ServerClients |-> <<>>] /\ owed = {}
  BY DEF Init, Server!Init, Server!SERVER, Server!shutdown, Server!Message
<1>2. \A S : <<>> \in Seq(S) /\ Len(<<>>) = 0
  BY NoElements
<1>3. ServerTypes
  BY <1>1, <1>2 DEF ServerTypes
<1>4. NumberInv /\ ListInv /\ QueueInv /\ RequestInv /\ OwedInv
  BY <1>1, <1>2 DEF NumberInv, ListInv, QueueInv, RequestInv, OwedInv, Started
<1>5. LaterInv
  BY <1>1, <1>2 DEF LaterInv
<1>6. PrintedInv
  BY <1>1, <1>2 DEF PrintedInv, Server!Proper, Server!SERVER
<1>. QED
  BY <1>3, <1>4, <1>5, <1>6 DEF ServerInv

-----------------------------------------------------------------------------
(* Steps that send and print nothing *)

\* What an element of a sequence of messages is.
LEMMA Messages ==
  ASSUME NEW q \in Seq(ServerMsg)
  PROVE  /\ Len(q) \in Nat /\ DOMAIN q = 1 .. Len(q)
         /\ \A i \in 1 .. Len(q) : /\ q[i].type \in Int /\ q[i].from \in ServerClients
                                   /\ q[i].text \in Nat /\ q[i] \in ServerMsg
<1>1. Len(q) \in Nat /\ DOMAIN q = 1 .. Len(q) /\ \A i \in 1 .. Len(q) : q[i] \in ServerMsg
  BY LenProperties, ElementOfSeq
<1>. QED
  BY <1>1 DEF ServerMsg

\* The numbers in use, and who has one of its own, change with a start only.
LEMMA NumbersStay ==
  ASSUME my_num' = my_num, \A d \in ServerClients : Started(d)' <=> Started(d)
  PROVE  InUse' = InUse /\ \A d \in ServerClients : Server!Proper(d)' <=> Server!Proper(d)
<1>1. InUse' = InUse
  BY DEF InUse
<1>2. ASSUME NEW d \in ServerClients PROVE Server!Proper(d)' <=> Server!Proper(d)
  BY DEF Server!Proper
<1>. QED
  BY <1>1, <1>2

\* Nothing is sent, taken or printed: the queue and the list stay or are emptied.
LEMMA QuietStep ==
  ASSUME ServerInv, ServerTypes', my_num' = my_num, \A d \in ServerClients : Started(d)' <=> Started(d),
         queue' \in {queue, <<>>}, active' \in {active, <<>>}, qsTodo' \in {qsTodo, <<>>},
         UNCHANGED <<rcvbuf, draft, qsSends, qsPrinted, owed>>,
         \A d \in ServerClients : /\ qsClient'[d] = "msgsnd" => qsClient[d] = "msgsnd"
                                  /\ qsClient[d] = "out" => qsClient'[d] = "out",
         qsKills' = 0 => qsServer' # "down",
         qsServer' = "up" /\ qsKills' = 0 =>
           qsServer = "up" /\ qsKills = 0 /\ queue' = queue /\ qsTodo' = qsTodo
  PROVE  ServerInv'
<1>. USE DEF ServerInv
<1>1. InUse' = InUse /\ \A d \in ServerClients : Server!Proper(d)' <=> Server!Proper(d)
  BY NumbersStay
<1>2. /\ Len(<<>>) = 0 /\ Len(queue) \in Nat /\ Len(active) \in Nat /\ Len(qsTodo) \in Nat
      /\ \A d \in ServerClients : Len(qsPrinted[d]) \in Nat
  BY NoElements, LenProperties DEF ServerTypes
<1>3. NumberInv' /\ ListInv' /\ QueueInv' /\ RequestInv'
  <2>1. NumberInv'
    BY DEF NumberInv
  <2>2. ListInv'
    BY <1>1, <1>2 DEF ListInv
  <2>3. QueueInv'
    <3>1. CASE queue' = queue
      <4>1. \A i \in 1 .. Len(queue) : queue[i].from \in ServerClients
        BY Messages DEF ServerTypes
      <4>. QED
        BY <1>1, <3>1, <4>1 DEF QueueInv
    <3>2. CASE queue' = <<>>
      BY <1>2, <3>2 DEF QueueInv
    <3>. QED
      BY <3>1, <3>2
  <2>4. RequestInv'
    BY <1>2 DEF RequestInv, Request
  <2>. QED
    BY <2>1, <2>2, <2>3, <2>4
<1>4. LaterInv'
  <2>1. \A s \in ServerClients : \A t \in Nat : Repeated(s, t)' => Repeated(s, t)
    BY <1>1, <1>2 DEF Repeated
  <2>. QED
    BY <1>2, <2>1 DEF LaterInv, Request
<1>5. PrintedInv'
  <2>. SUFFICES ASSUME NEW c \in ServerClients, Server!Proper(c)' PROVE InOrder(c)'
    BY DEF PrintedInv
  <2>1. InOrder(c)
    BY <1>1 DEF PrintedInv
  <2>2. Server!Contains(qsTodo, my_num[c])' => Server!Contains(qsTodo, my_num[c])
    BY <1>2 DEF Server!Contains
  <2>3. CASE queue' = queue
    BY <2>1, <2>2, <2>3 DEF InOrder, PrintedUp, WaitingUp, WaitingLater, HandLatest, For
  <2>4. CASE queue' = <<>>
    BY <1>2, <2>1, <2>2, <2>4 DEF InOrder, PrintedUp, WaitingUp, WaitingLater, HandLatest, For
  <2>. QED
    BY <2>3, <2>4
<1>6. OwedInv'
  <2>1. Orderly' => Orderly
    BY DEF Orderly
  <2>2. ASSUME Orderly', NEW x \in owed, Server!Reached(x[1], x[2]) PROVE Server!Reached(x[1], x[2])'
    BY <2>2 DEF Orderly, Server!Reached
  <2>3. \A x \in owed : x[1] \in ServerClients
    BY DEF ServerTypes
  <2>. QED
    BY <1>1, <2>1, <2>2, <2>3 DEF OwedInv
<1>. QED
  BY <1>3, <1>4, <1>5, <1>6

LEMMA QuietOfClient ==
  ASSUME ServerInv, NEW c \in ServerClients,
         Server!Timeout(c) \/ Server!Leave(c)
  PROVE  ServerInv'
<1>. USE DEF ServerInv
<1>1. CASE Server!Timeout(c)
  <2>1. /\ qsClient[c] = "select" /\ qsClient' = [qsClient EXCEPT ![c] = "drain"]
        /\ UNCHANGED <<queue, msgid, qsServer, active, qsTodo, rcvbuf, qsKills, my_num, draft, qsSends,
                       qsPrinted, owed>>
    BY <1>1 DEF Server!Timeout, Server!qsServer
  <2>2. ServerTypes'
    BY <2>1 DEF ServerTypes
  <2>3. OwedInv /\ \A d \in ServerClients : Started(d)' <=> Started(d)
    BY <2>1 DEF Started, ServerTypes
  <2>4. \A d \in ServerClients : /\ qsClient'[d] = "msgsnd" => qsClient[d] = "msgsnd"
                                 /\ qsClient[d] = "out" => qsClient'[d] = "out"
    BY <2>1 DEF ServerTypes
  <2>. QED
    BY <2>1, <2>2, <2>3, <2>4, QuietStep DEF OwedInv
<1>2. CASE Server!Leave(c)
  <2>1. /\ qsClient[c] # "new" /\ qsClient' = [qsClient EXCEPT ![c] = "out"]
        /\ UNCHANGED <<queue, msgid, qsServer, active, qsTodo, rcvbuf, qsKills, my_num, draft, qsSends,
                       qsPrinted, owed>>
    BY <1>2 DEF Server!Leave, Server!qsServer
  <2>2. ServerTypes'
    BY <2>1 DEF ServerTypes
  <2>3. OwedInv /\ \A d \in ServerClients : Started(d)' <=> Started(d)
    BY <2>1 DEF Started, ServerTypes
  <2>4. \A d \in ServerClients : /\ qsClient'[d] = "msgsnd" => qsClient[d] = "msgsnd"
                                 /\ qsClient[d] = "out" => qsClient'[d] = "out"
    BY <2>1 DEF ServerTypes
  <2>. QED
    BY <2>1, <2>2, <2>3, <2>4, QuietStep DEF OwedInv
<1>. QED
  BY <1>1, <1>2

LEMMA QuietOfServer ==
  ASSUME ServerInv, Server!cleanup \/ Server!Kill \/ Server!Restart
  PROVE  ServerInv'
<1>. USE DEF ServerInv
<1>1. CASE Server!cleanup
  <2>1. /\ qsServer' = "gone" /\ msgid' = FALSE /\ queue' = <<>> /\ qsTodo' = <<>>
        /\ UNCHANGED <<active, rcvbuf, qsKills, qsClient, my_num, draft, qsSends, qsPrinted, owed>>
    BY <1>1 DEF Server!cleanup
  <2>2. ServerTypes'
    BY <2>1, NoElements DEF ServerTypes
  <2>3. \A d \in ServerClients : Started(d)' <=> Started(d)
    BY <2>1 DEF Started
  <2>. QED
    BY <2>1, <2>2, <2>3, QuietStep
<1>2. CASE Server!Kill
  <2>1. /\ qsServer' = "down" /\ qsKills' = qsKills + 1 /\ active' = <<>> /\ qsTodo' = <<>>
        /\ UNCHANGED <<queue, msgid, rcvbuf, qsClient, my_num, draft, qsSends, qsPrinted, owed>>
    BY <1>2 DEF Server!Kill
  <2>2. ServerTypes' /\ qsKills' # 0
    BY <2>1, NoElements DEF ServerTypes
  <2>3. \A d \in ServerClients : Started(d)' <=> Started(d)
    BY <2>1 DEF Started
  <2>. QED
    BY <2>1, <2>2, <2>3, QuietStep
<1>3. CASE Server!Restart
  <2>1. /\ qsServer = "down" /\ qsServer' = "up"
        /\ UNCHANGED <<queue, msgid, active, qsTodo, rcvbuf, qsKills, qsClient, my_num, draft, qsSends,
                       qsPrinted, owed>>
    BY <1>3 DEF Server!Restart
  <2>2. ServerTypes'
    BY <2>1 DEF ServerTypes
  <2>3. qsKills # 0 /\ \A d \in ServerClients : Started(d)' <=> Started(d)
    BY <2>1 DEF Started, OwedInv
  <2>. QED
    BY <2>1, <2>2, <2>3, QuietStep
<1>. QED
  BY <1>1, <1>2, <1>3

-----------------------------------------------------------------------------
(* The client *)

\* Whoever starts has heard nothing, and nothing is meant for it, unless it takes
\* the number of another.
LEMMA StartPreserves ==
  ASSUME ServerInv, NEW c \in ServerClients, Server!Start(c)
  PROVE  ServerInv'
<1>. USE DEF ServerInv
<1>1. PICK n \in Int :
        /\ n # 10 /\ qsClient[c] = "new" /\ qsClient' = [qsClient EXCEPT ![c] = "select"]
        /\ my_num' = [my_num EXCEPT ![c] = n]
        /\ UNCHANGED <<queue, msgid, qsServer, active, qsTodo, rcvbuf, qsKills, draft, qsSends, qsPrinted, owed>>
  <2>1. PICK n \in ServerNumbers[c] :
        /\ qsClient[c] = "new" /\ qsClient' = [qsClient EXCEPT ![c] = "select"]
        /\ my_num' = [my_num EXCEPT ![c] = n]
        /\ UNCHANGED <<queue, msgid, qsServer, active, qsTodo, rcvbuf, qsKills, draft, qsSends, qsPrinted, owed>>
    BY DEF Server!Start, Server!qsServer
  <2>2. n \in Int /\ n # 10
    BY ConcurrentAssumption DEF ConcurrentAssumption
  <2>. QED
    BY <2>1, <2>2
<1>2. /\ my_num'[c] = n /\ my_num[c] = 10 /\ qsPrinted[c] = <<>> /\ ~Started(c)
      /\ \A d \in ServerClients \ {c} : my_num'[d] = my_num[d] /\ qsClient'[d] = qsClient[d]
      /\ \A d \in ServerClients : (Started(d)' <=> Started(d) \/ d = c) /\ qsClient'[c] = "select"
  BY <1>1 DEF Started, ServerTypes, NumberInv
<1>3. /\ InUse \subseteq InUse'
      /\ \A d \in ServerClients \ {c} : Server!Proper(d)' => Server!Proper(d)
      /\ Server!Proper(c)' => n \notin InUse /\ n > 10
  <2>1. InUse \subseteq InUse'
    BY <1>2 DEF InUse
  <2>2. \A d \in ServerClients \ {c} : Server!Proper(d)' => Server!Proper(d)
    <3>. SUFFICES ASSUME NEW d \in ServerClients \ {c}, Server!Proper(d)' PROVE Server!Proper(d)
      OBVIOUS
    <3>1. my_num'[d] > 10 /\ \A e \in ServerClients \ {d} : my_num'[e] # my_num'[d]
      BY DEF Server!Proper, Server!SERVER
    <3>2. my_num[d] > 10 /\ my_num[d] # my_num[c]
      BY <1>2, <3>1
    <3>. QED
      BY <1>2, <3>1, <3>2 DEF Server!Proper, Server!SERVER
  <2>3. Server!Proper(c)' => n \notin InUse /\ n > 10
    BY <1>2 DEF Server!Proper, Server!SERVER, InUse
  <2>. QED
    BY <2>1, <2>2, <2>3
<1>4. /\ Len(<<>>) = 0 /\ Len(queue) \in Nat
      /\ \A i \in 1 .. Len(queue) : queue[i].from \in ServerClients
  BY NoElements, Messages DEF ServerTypes
<1>5. ServerTypes'
  BY <1>1 DEF ServerTypes
<1>6. NumberInv' /\ ListInv' /\ QueueInv' /\ RequestInv'
  <2>1. NumberInv'
    BY <1>1, <1>2 DEF NumberInv
  <2>2. ListInv'
    BY <1>1, <1>2, <1>3 DEF ListInv
  <2>3. QueueInv'
    <3>. SUFFICES ASSUME NEW i \in 1 .. Len(queue)
                  PROVE  /\ queue[i].type > 0 /\ Started(queue[i].from)'
                         /\ queue[i].type # 10 => /\ queue[i].text > 0 /\ queue[i].type \in InUse'
                                                  /\ queue[i].type # my_num'[queue[i].from]
      BY <1>1 DEF QueueInv
    <3>1. queue[i].from \in ServerClients \ {c}
      BY <1>2, <1>4 DEF QueueInv
    <3>2. Started(queue[i].from)' /\ my_num'[queue[i].from] = my_num[queue[i].from]
      BY <1>1, <1>2, <3>1 DEF QueueInv, Started
    <3>3. queue[i].type \in InUse => queue[i].type \in InUse'
      BY <1>3
    <3>. QED
      BY <3>2, <3>3 DEF QueueInv
  <2>4. RequestInv'
    BY <1>1 DEF RequestInv, Request
  <2>. QED
    BY <2>1, <2>2, <2>3, <2>4
<1>7. LaterInv'
  <2>1. \A s \in ServerClients : \A t \in Nat : Repeated(s, t)' => Repeated(s, t)
    BY <1>1, <1>2, <1>3, <1>4 DEF Repeated
  <2>2. \A s \in ServerClients : qsClient'[s] = "msgsnd" => qsClient[s] = "msgsnd"
    BY <1>2
  <2>. QED
    BY <1>1, <2>1, <2>2 DEF LaterInv, Request
<1>8. PrintedInv'
  <2>. SUFFICES ASSUME NEW d \in ServerClients, Server!Proper(d)' PROVE InOrder(d)'
    BY DEF PrintedInv
  <2>1. CASE d # c
    BY <1>1, <1>2, <1>3, <2>1 DEF PrintedInv, InOrder, PrintedUp, WaitingUp, WaitingLater, HandLatest, For, Server!Contains
  <2>2. CASE d = c
    <3>1. \A i \in 1 .. Len(queue) : queue[i].type # n
      BY <1>3, <2>2 DEF QueueInv
    <3>2. \A i \in 1 .. Len(qsTodo) : qsTodo[i] # n
      BY <1>3, <2>2 DEF ListInv
    <3>. QED
      BY <1>1, <1>2, <1>4, <2>2, <3>1, <3>2 DEF InOrder, PrintedUp, WaitingUp, WaitingLater, HandLatest, For, Server!Contains
  <2>. QED
    BY <2>1, <2>2
<1>9. OwedInv'
  <2>1. Orderly' => Orderly
    BY <1>1, <1>2 DEF Orderly
  <2>2. \A x \in owed : x[1] \in ServerClients \ {c}
    BY <1>2 DEF ServerTypes, OwedInv
  <2>3. ASSUME NEW x \in owed, Server!Reached(x[1], x[2]) PROVE Server!Reached(x[1], x[2])'
    BY <1>1, <1>2, <2>2, <2>3 DEF Server!Reached, Server!Contains
  <2>. QED
    BY <1>1, <1>2, <1>3, <2>1, <2>2, <2>3 DEF OwedInv
<1>. QED
  BY <1>5, <1>6, <1>7, <1>8, <1>9

\* A text that comes after everything a client was heard with, or sleeps with.
Fresh(c, text) ==
    /\ \A t \in Nat : Repeated(c, t) => t < text
    /\ \A i \in 1 .. Len(queue) : Request(i) /\ queue[i].from = c => queue[i].text < text

LEMMA SendPreserves ==
  ASSUME ServerInv, NEW c \in ServerClients, NEW text \in Nat, Server!Send(c, text),
         qsClient[c] \in {"select", "msgsnd"}, text > 0 => Fresh(c, text),
         qsSends' \in Nat, qsSends <= qsSends', text <= qsSends',
         UNCHANGED <<msgid, qsServer, active, qsTodo, rcvbuf, qsKills, my_num, qsPrinted, owed>>
  PROVE  ServerInv'
<1>. USE DEF ServerInv
<1>. DEFINE m == [type |-> 10, from |-> c, text |-> text]
            n == Len(queue)
<1>1. /\ m \in ServerMsg /\ m.type = 10 /\ m.from = c /\ m.text = text
      /\ queue \in Seq(ServerMsg) /\ n \in Nat /\ \A i \in 1 .. n : queue[i].from \in ServerClients
      /\ qsSends \in Nat /\ \A i \in 1 .. n : queue[i].text \in Nat
  <2>1. queue \in Seq(ServerMsg) /\ qsSends \in Nat
    BY DEF ServerTypes
  <2>2. n \in Nat /\ \A i \in 1 .. n : queue[i].from \in ServerClients /\ queue[i].text \in Nat
    BY <2>1, Messages
  <2>3. m \in ServerMsg /\ m.type = 10 /\ m.from = c /\ m.text = text
    BY DEF ServerMsg
  <2>. QED
    BY <2>1, <2>2, <2>3
<1>2. /\ queue' \in {queue, Append(queue, m)}
      /\ \E d \in {0, text} : draft' = [draft EXCEPT ![c] = d]
      /\ \E s \in {"msgsnd", "out", "drain"} : qsClient' = [qsClient EXCEPT ![c] = s]
      /\ qsClient'[c] = "msgsnd" => queue' = queue
  BY DEF Server!Send, Server!Message, Server!SERVER, Server!shutdown, ServerTypes
<1>3. /\ queue' \in Seq(ServerMsg) /\ Len(queue') \in {n, n + 1}
      /\ \A i \in 1 .. n : queue'[i] = queue[i]
      /\ Len(queue') = n + 1 => queue'[n + 1] = m
      /\ qsClient'[c] = "msgsnd" => Len(queue') = n
  BY <1>1, <1>2, Added
<1>. HIDE DEF m
<1>4. \A i \in 1 .. Len(queue') : \/ i \in 1 .. n /\ queue'[i] = queue[i]
                                  \/ i = n + 1 /\ queue'[i] = m
  BY <1>1, <1>3
<1>5. /\ \A d \in ServerClients : Started(d)' <=> Started(d)
      /\ \A d \in ServerClients \ {c} : qsClient'[d] = qsClient[d] /\ draft'[d] = draft[d]
      /\ draft'[c] \in {0, text} /\ qsClient'[c] # "new" /\ qsClient[c] \notin {"new", "out"}
  BY <1>2 DEF Started, ServerTypes
<1>6. InUse' = InUse /\ \A d \in ServerClients : Server!Proper(d)' <=> Server!Proper(d)
  BY <1>5, NumbersStay
<1>7. ServerTypes'
  <2>1. draft' \in [ServerClients -> Nat]
    BY <1>2 DEF ServerTypes
  <2>2. qsClient' \in [ServerClients -> {"new", "select", "msgsnd", "drain", "out"}]
    BY <1>2 DEF ServerTypes
  <2>. QED
    BY <1>3, <2>1, <2>2 DEF ServerTypes
<1>8. NumberInv' /\ ListInv' /\ QueueInv' /\ RequestInv'
  <2>1. NumberInv'
    BY <1>5 DEF NumberInv
  <2>2. ListInv'
    BY <1>5, <1>6 DEF ListInv
  <2>3. QueueInv'
    <3>. SUFFICES ASSUME NEW i \in 1 .. Len(queue')
                  PROVE  /\ queue'[i].type > 0 /\ Started(queue[i].from)'
                         /\ queue'[i].type # 10 => /\ queue'[i].text > 0 /\ queue'[i].type \in InUse
                                                   /\ queue'[i].type # my_num[queue'[i].from]
      BY <1>6 DEF QueueInv
    <3>1. CASE i \in 1 .. n /\ queue'[i] = queue[i]
      BY <1>1, <1>5, <3>1 DEF QueueInv, Started
    <3>2. CASE i = n + 1 /\ queue'[i] = m
      BY <1>1, <1>5, <3>2 DEF Started
    <3>. QED
      BY <1>4, <3>1, <3>2
  <2>4. RequestInv'
    <3>1. \A i, j \in 1 .. Len(queue') :
            i < j /\ Request(i)' /\ Request(j)' /\ queue'[i].from = queue'[j].from
            => queue'[i].text < queue'[j].text
      <4>. SUFFICES ASSUME NEW i \in 1 .. Len(queue'), NEW j \in 1 .. Len(queue'), i < j,
                           Request(i)', Request(j)', queue'[i].from = queue'[j].from
                    PROVE  queue'[i].text < queue'[j].text
        OBVIOUS
      <4>1. i \in 1 .. n /\ queue'[i] = queue[i] /\ Request(i)
        BY <1>1, <1>3 DEF Request
      <4>2. CASE j \in 1 .. n /\ queue'[j] = queue[j]
        BY <4>1, <4>2 DEF RequestInv, Request
      <4>3. CASE j = n + 1 /\ queue'[j] = m
        BY <1>1, <4>1, <4>3 DEF Request, Fresh
      <4>. QED
        BY <1>4, <4>2, <4>3
    <3>2. \A i \in 1 .. Len(queue') : queue'[i].text <= qsSends'
      <4>1. \A i \in 1 .. n : queue[i].text <= qsSends'
        BY <1>1 DEF RequestInv
      <4>. QED
        BY <1>1, <1>4, <4>1
    <3>3. rcvbuf.text <= qsSends' /\ \A d \in ServerClients : draft'[d] <= qsSends'
      <4>1. rcvbuf.text \in Nat /\ \A d \in ServerClients : draft[d] \in Nat
        BY DEF ServerTypes
      <4>. QED
        BY <1>1, <1>5, <4>1 DEF RequestInv
    <3>4. \A d \in ServerClients : \A i \in 1 .. Len(qsPrinted[d]) : qsPrinted[d][i].text <= qsSends'
      <4>. SUFFICES ASSUME NEW d \in ServerClients, NEW i \in 1 .. Len(qsPrinted[d])
                    PROVE  qsPrinted[d][i].text <= qsSends'
        OBVIOUS
      <4>1. qsPrinted[d][i].text \in Nat
        BY Messages DEF ServerTypes
      <4>2. qsPrinted[d][i].text <= qsSends
        BY DEF RequestInv
      <4>3. qsSends \in Nat
        BY DEF ServerTypes
      <4>. QED
        BY <4>1, <4>2, <4>3
    <3>. QED
      BY <3>1, <3>2, <3>3, <3>4 DEF RequestInv
  <2>. QED
    BY <2>1, <2>2, <2>3, <2>4
<1>9. LaterInv'
  <2>1. ASSUME NEW s \in ServerClients, NEW t \in Nat, Repeated(s, t)' PROVE Repeated(s, t)
    <3>1. CASE \E i \in 1 .. Len(queue') : queue'[i].type # 10 /\ queue'[i].from = s /\ queue'[i].text = t
      BY <1>1, <1>4, <3>1 DEF Repeated
    <3>2. CASE ~ \E i \in 1 .. Len(queue') : queue'[i].type # 10 /\ queue'[i].from = s /\ queue'[i].text = t
      BY <1>6, <2>1, <3>2 DEF Repeated
    <3>. QED
      BY <3>1, <3>2
  <2>2. ASSUME NEW s \in ServerClients, NEW t \in Nat, Repeated(s, t)
        PROVE  /\ \A i \in 1 .. Len(queue') : Request(i)' /\ queue'[i].from = s => t < queue'[i].text
               /\ qsClient'[s] = "msgsnd" /\ draft'[s] > 0 => t < draft'[s]
    BY <1>1, <1>4, <1>5, <2>2 DEF LaterInv, Request, Fresh
  <2>3. ASSUME NEW s \in ServerClients, qsClient'[s] = "msgsnd" /\ draft'[s] > 0,
               NEW i \in 1 .. Len(queue'), Request(i)', queue'[i].from = s
        PROVE  queue'[i].text < draft'[s]
    BY <1>1, <1>3, <1>4, <1>5, <2>3 DEF LaterInv, Request, Fresh
  <2>. QED
    BY <2>1, <2>2, <2>3 DEF LaterInv
<1>10. PrintedInv'
  <2>. SUFFICES ASSUME NEW d \in ServerClients, Server!Proper(d)' PROVE InOrder(d)'
    BY DEF PrintedInv
  <2>1. InOrder(d) /\ my_num[d] # 10
    BY <1>6 DEF PrintedInv, Server!Proper, Server!SERVER
  <2>2. \A i \in 1 .. Len(queue') : For(d, i)' => i \in 1 .. n /\ queue'[i] = queue[i] /\ For(d, i)
    BY <1>1, <1>4, <2>1 DEF For
  <2>. QED
    BY <2>1, <2>2 DEF InOrder, PrintedUp, WaitingUp, WaitingLater, HandLatest, Server!Contains
<1>11. OwedInv'
  <2>1. Orderly' => Orderly
    BY <1>5 DEF Orderly
  <2>2. \A x \in owed : x[1] \in ServerClients
    BY DEF ServerTypes
  <2>3. ASSUME NEW x \in owed, Server!Reached(x[1], x[2]) PROVE Server!Reached(x[1], x[2])'
    BY <1>1, <1>3, <2>3 DEF Server!Reached, Server!Contains
  <2>. QED
    BY <1>5, <1>6, <2>1, <2>2, <2>3 DEF OwedInv
<1>. QED
  BY <1>7, <1>8, <1>9, <1>10, <1>11

LEMMA TypePreserves ==
  ASSUME ServerInv, NEW c \in ServerClients, Server!Type(c)
  PROVE  ServerInv'
<1>. USE DEF ServerInv
<1>1. PICK text \in {0, qsSends'} :
        /\ Server!Send(c, text) /\ qsClient[c] = "select" /\ qsSends' = qsSends + 1
        /\ UNCHANGED <<msgid, qsServer, active, qsTodo, rcvbuf, qsKills, my_num, qsPrinted, owed>>
  BY DEF Server!Type, Server!qsServer, Server!shutdown
<1>2. qsSends \in Nat
  BY DEF ServerTypes
<1>3. \A t \in Nat : Repeated(c, t) => t < qsSends'
  <2>. SUFFICES ASSUME NEW t \in Nat, Repeated(c, t) PROVE t <= qsSends
    BY <1>1, <1>2
  <2>. QED
    BY DEF Repeated, RequestInv
<1>4. \A i \in 1 .. Len(queue) : queue[i].text < qsSends'
  <2>1. \A i \in 1 .. Len(queue) : queue[i].text \in Nat
    BY Messages DEF ServerTypes
  <2>. QED
    BY <1>1, <1>2, <2>1 DEF RequestInv
<1>5. text > 0 => Fresh(c, text)
  BY <1>1, <1>3, <1>4 DEF Fresh
<1>. QED
  BY <1>1, <1>2, <1>5, SendPreserves

LEMMA WakePreserves ==
  ASSUME ServerInv, NEW c \in ServerClients, Server!Wake(c)
  PROVE  ServerInv'
<1>. USE DEF ServerInv
<1>1. /\ Server!Send(c, draft[c]) /\ qsClient[c] = "msgsnd"
      /\ UNCHANGED <<msgid, qsServer, active, qsTodo, rcvbuf, qsKills, my_num, qsPrinted, owed, qsSends>>
  BY DEF Server!Wake, Server!qsServer
<1>2. qsSends \in Nat /\ draft[c] \in Nat /\ draft[c] <= qsSends
  BY DEF ServerTypes, RequestInv
<1>3. draft[c] > 0 => Fresh(c, draft[c])
  BY <1>1 DEF LaterInv, Fresh
<1>. QED
  BY <1>1, <1>2, <1>3, SendPreserves

LEMMA DrainPreserves ==
  ASSUME ServerInv, NEW c \in ServerClients, Server!Drain(c)
  PROVE  ServerInv'
<1>. USE DEF ServerInv
<1>. DEFINE i == Server!Pick(my_num[c])
            n == Len(queue)
            p == Len(qsPrinted[c])
<1>1. CASE i = 0
  <2>1. /\ qsClient[c] = "drain" /\ qsClient' = [qsClient EXCEPT ![c] = "select"]
        /\ UNCHANGED <<queue, msgid, qsServer, active, qsTodo, rcvbuf, qsKills, my_num, draft, qsSends,
                       qsPrinted, owed>>
    BY <1>1 DEF Server!Drain, Server!qsServer
  <2>2. ServerTypes'
    BY <2>1 DEF ServerTypes
  <2>3. OwedInv /\ \A d \in ServerClients : Started(d)' <=> Started(d)
    BY <2>1 DEF Started, ServerTypes
  <2>4. \A d \in ServerClients : /\ qsClient'[d] = "msgsnd" => qsClient[d] = "msgsnd"
                                 /\ qsClient[d] = "out" => qsClient'[d] = "out"
    BY <2>1 DEF ServerTypes
  <2>. QED
    BY <2>1, <2>2, <2>3, <2>4, QuietStep DEF OwedInv
<1>2. CASE i # 0
  <2>1. /\ qsClient[c] = "drain" /\ queue' = Server!RemoveAt(queue, i)
        /\ qsPrinted' = [qsPrinted EXCEPT ![c] = Append(qsPrinted[c], queue[i])]
        /\ UNCHANGED <<qsClient, msgid, qsServer, active, qsTodo, rcvbuf, qsKills, my_num, draft, qsSends, owed>>
    BY <1>2 DEF Server!Drain, Server!qsServer
  <2>2. /\ i \in 1 .. n /\ my_num[c] \in Int /\ queue \in Seq(ServerMsg) /\ n \in Nat
        /\ queue[i] \in ServerMsg
        /\ my_num[c] > 0 => /\ queue[i].type = my_num[c]
                            /\ \A j \in 1 .. n : queue[j].type = my_num[c] => i <= j
        /\ \A j \in 1 .. n : queue[j].from \in ServerClients /\ queue[j].text \in Nat
    <3>1. my_num[c] \in Int /\ queue \in Seq(ServerMsg)
      BY DEF ServerTypes
    <3>2. i \in 1 .. n /\ (my_num[c] > 0 => /\ queue[i].type = my_num[c]
                                           /\ \A j \in 1 .. n : queue[j].type = my_num[c] => i <= j)
      BY <1>2, <3>1, PickTakes
    <3>. HIDE DEF i
    <3>. QED
      BY <3>1, <3>2, Messages
  <2>. HIDE DEF i
  <2>3. /\ queue' \in Seq(ServerMsg) /\ Len(queue') = n - 1
        /\ \A j \in 1 .. n - 1 : Old(j, i) \in 1 .. n /\ Old(j, i) # i /\ queue'[j] = queue[Old(j, i)]
        /\ \A j, k \in 1 .. n - 1 : j < k => Old(j, i) < Old(k, i)
        /\ \A j \in 1 .. n : j # i => New(j, i) \in 1 .. n - 1 /\ queue'[New(j, i)] = queue[j]
    <3>1. queue \in Seq(ServerMsg) /\ i \in 1 .. Len(queue) /\ queue' = Server!RemoveAt(queue, i)
      BY <2>1, <2>2
    <3>2. /\ queue' \in Seq(ServerMsg) /\ Len(queue') = Len(queue) - 1
          /\ \A j \in 1 .. Len(queue') : /\ Old(j, i) \in 1 .. Len(queue) /\ Old(j, i) # i
                                         /\ queue'[j] = queue[Old(j, i)]
          /\ \A j, k \in 1 .. Len(queue') : j < k <=> Old(j, i) < Old(k, i)
          /\ \A j \in 1 .. Len(queue) : j # i => /\ New(j, i) \in 1 .. Len(queue')
                                                 /\ queue'[New(j, i)] = queue[j]
      BY <3>1, Taken
    <3>. QED
      BY <3>2
  <2>4. /\ qsPrinted \in [ServerClients -> Seq(ServerMsg)]
        /\ \A d \in ServerClients \ {c} : qsPrinted'[d] = qsPrinted[d]
        /\ qsPrinted'[c] = Append(qsPrinted[c], queue[i])
    BY <2>1 DEF ServerTypes
  <2>5. /\ qsPrinted'[c] \in Seq(ServerMsg) /\ p \in Nat /\ Len(qsPrinted'[c]) = p + 1
        /\ \A j \in 1 .. p : qsPrinted'[c][j] = qsPrinted[c][j]
        /\ qsPrinted'[c][p + 1] = queue[i]
    BY <2>2, <2>4, Added
  <2>6. /\ \A d \in ServerClients : Started(d)' <=> Started(d)
        /\ InUse' = InUse /\ \A d \in ServerClients : Server!Proper(d)' <=> Server!Proper(d)
    <3>1. \A d \in ServerClients : Started(d)' <=> Started(d)
      BY <2>1 DEF Started
    <3>. QED
      BY <2>1, <3>1, NumbersStay
  <2>7. ServerTypes'
    <3>1. qsPrinted' \in [ServerClients -> Seq(ServerMsg)]
      BY <2>1, <2>4, <2>5
    <3>. QED
      BY <2>1, <2>3, <3>1 DEF ServerTypes
  <2>8. NumberInv'
    BY <2>1, <2>4 DEF NumberInv, Started
  <2>9. ListInv' /\ QueueInv'
    <3>1. ListInv'
      BY <2>1, <2>6 DEF ListInv, Started
    <3>2. QueueInv'
      BY <2>1, <2>2, <2>3, <2>6 DEF QueueInv, Started
    <3>. QED
      BY <3>1, <3>2
  <2>10. RequestInv'
    <3>1. \A j, k \in 1 .. n - 1 :
            j < k /\ Request(j)' /\ Request(k)' /\ queue'[j].from = queue'[k].from
            => queue'[j].text < queue'[k].text
      <4>. SUFFICES ASSUME NEW j \in 1 .. n - 1, NEW k \in 1 .. n - 1, j < k, Request(j)', Request(k)',
                           queue'[j].from = queue'[k].from
                    PROVE  queue'[j].text < queue'[k].text
        OBVIOUS
      <4>1. Request(Old(j, i)) /\ Request(Old(k, i)) /\ Old(j, i) < Old(k, i)
        BY <2>3 DEF Request
      <4>. QED
        BY <2>3, <4>1 DEF RequestInv
    <3>2. \A j \in 1 .. n - 1 : queue'[j].text <= qsSends
      BY <2>3 DEF RequestInv
    <3>3. ASSUME NEW d \in ServerClients, NEW j \in 1 .. Len(qsPrinted'[d]) PROVE qsPrinted'[d][j].text <= qsSends
      <4>1. CASE d # c
        BY <2>4, <4>1 DEF RequestInv
      <4>2. CASE d = c
        <5>1. \/ j \in 1 .. p /\ qsPrinted'[c][j] = qsPrinted[c][j]
              \/ qsPrinted'[c][j] = queue[i]
          BY <2>5, <4>2
        <5>. QED
          BY <2>2, <4>2, <5>1 DEF RequestInv
      <4>. QED
        BY <4>1, <4>2
    <3>. QED
      BY <2>1, <2>3, <3>1, <3>2, <3>3 DEF RequestInv
  <2>11. LaterInv'
    <3>1. ASSUME NEW s \in ServerClients, NEW t \in Nat, Repeated(s, t)' PROVE Repeated(s, t)
      <4>1. CASE rcvbuf.from = s /\ rcvbuf.text = t
        BY <4>1 DEF Repeated
      <4>2. CASE \E j \in 1 .. n - 1 : queue'[j].type # 10 /\ queue'[j].from = s /\ queue'[j].text = t
        BY <2>3, <4>2 DEF Repeated
      <4>3. ASSUME NEW d \in ServerClients, Server!Proper(d), NEW j \in 1 .. Len(qsPrinted'[d]),
                   qsPrinted'[d][j].from = s, qsPrinted'[d][j].text = t
            PROVE  Repeated(s, t)
        <5>1. CASE j \in 1 .. Len(qsPrinted[d]) /\ qsPrinted'[d][j] = qsPrinted[d][j]
          BY <4>3, <5>1 DEF Repeated
        <5>2. CASE d = c /\ j = p + 1
          <6>1. queue[i].type # 10 /\ queue[i].from = s /\ queue[i].text = t
            BY <2>2, <2>5, <4>3, <5>2 DEF Server!Proper, Server!SERVER
          <6>. QED
            BY <2>2, <6>1 DEF Repeated
        <5>3. CASE d # c
          BY <2>4, <5>1, <5>3
        <5>4. CASE d = c
          BY <2>5, <5>1, <5>2, <5>4
        <5>. QED
          BY <5>3, <5>4
      <4>. QED
        BY <2>1, <2>3, <2>6, <3>1, <4>1, <4>2, <4>3 DEF Repeated
    <3>. QED
      BY <2>1, <2>3, <3>1 DEF LaterInv, Request
  <2>12. PrintedInv'
    <3>. SUFFICES ASSUME NEW d \in ServerClients, Server!Proper(d) PROVE InOrder(d)'
      BY <2>6 DEF PrintedInv
    <3>1. InOrder(d) /\ my_num[d] > 0 /\ my_num[d] # 10
      <4>1. my_num[d] > 10 /\ my_num[d] \in Int
        BY DEF Server!Proper, Server!SERVER, ServerTypes
      <4>. QED
        BY <4>1 DEF PrintedInv
    <3>2. /\ Len(queue') = n - 1
          /\ \A j \in 1 .. n - 1 : /\ Old(j, i) \in 1 .. n /\ queue'[j] = queue[Old(j, i)]
                                   /\ For(d, j)' => For(d, Old(j, i))
      BY <2>1, <2>3 DEF For
    <3>3. WaitingUp(d)'
      <4>. SUFFICES ASSUME NEW j \in 1 .. n - 1, NEW k \in 1 .. n - 1, j < k, For(d, j)', For(d, k)',
                           queue'[j].from = queue'[k].from
                    PROVE  queue'[j].text < queue'[k].text
        BY <3>2 DEF WaitingUp
      <4>1. Old(j, i) < Old(k, i)
        BY <2>3
      <4>. QED
        BY <3>1, <3>2, <4>1 DEF InOrder, WaitingUp
    <3>4. Server!Contains(qsTodo, my_num[d])' <=> Server!Contains(qsTodo, my_num[d])
      BY <2>1
    <3>5. CASE d # c
      <4>1. qsPrinted'[d] = qsPrinted[d]
        BY <2>4, <3>5
      <4>2. PrintedUp(d)' /\ \A j \in 1 .. Len(qsPrinted[d]) : qsPrinted[d][j].from # d
        BY <3>1, <4>1 DEF InOrder, PrintedUp
      <4>3. WaitingLater(d)'
        BY <3>1, <3>2, <4>1 DEF InOrder, WaitingLater
      <4>4. HandLatest(d) => HandLatest(d)'
        BY <2>1, <3>1, <3>2, <4>1 DEF HandLatest
      <4>. QED
        BY <3>1, <3>3, <3>4, <4>1, <4>2, <4>3, <4>4 DEF InOrder
    <3>6. CASE d = c
      <4>1. /\ For(c, i) /\ \A j \in 1 .. n : For(c, j) /\ j # i => i < j
            /\ queue[i].from # c
        <5>1. queue[i].type = my_num[c] /\ \A j \in 1 .. n : queue[j].type = my_num[c] => i <= j
          BY <2>2, <3>1, <3>6
        <5>2. queue[i].type # my_num[queue[i].from]
          BY <2>2, <3>1, <3>6, <5>1 DEF QueueInv
        <5>. QED
          BY <2>2, <5>1, <5>2 DEF For
      <4>2. \A j \in 1 .. p + 1 : \/ j \in 1 .. p /\ qsPrinted'[c][j] = qsPrinted[c][j]
                                  \/ j = p + 1 /\ qsPrinted'[c][j] = queue[i]
        BY <2>5
      <4>3. PrintedUp(c)'
        <5>. SUFFICES ASSUME NEW j \in 1 .. p + 1, NEW k \in 1 .. p + 1, j < k,
                             qsPrinted'[c][j].from = qsPrinted'[c][k].from
                      PROVE  qsPrinted'[c][j].text < qsPrinted'[c][k].text
          BY <2>5 DEF PrintedUp
        <5>1. j \in 1 .. p /\ qsPrinted'[c][j] = qsPrinted[c][j]
          BY <2>5
        <5>2. CASE k \in 1 .. p /\ qsPrinted'[c][k] = qsPrinted[c][k]
          BY <3>1, <3>6, <5>1, <5>2 DEF InOrder, PrintedUp
        <5>3. CASE k = p + 1 /\ qsPrinted'[c][k] = queue[i]
          BY <2>2, <3>1, <3>6, <4>1, <5>1, <5>3 DEF InOrder, WaitingLater
        <5>. QED
          BY <4>2, <5>2, <5>3
      <4>4. WaitingLater(c)'
        <5>. SUFFICES ASSUME NEW j \in 1 .. p + 1, NEW k \in 1 .. n - 1, For(c, k)',
                             qsPrinted'[c][j].from = queue'[k].from
                      PROVE  qsPrinted'[c][j].text < queue'[k].text
          BY <2>5, <3>2 DEF WaitingLater
        <5>1. For(c, Old(k, i)) /\ Old(k, i) \in 1 .. n /\ i < Old(k, i) /\ queue'[k] = queue[Old(k, i)]
          BY <2>3, <3>2, <3>6, <4>1
        <5>2. CASE j \in 1 .. p /\ qsPrinted'[c][j] = qsPrinted[c][j]
          BY <3>1, <3>6, <5>1, <5>2 DEF InOrder, WaitingLater
        <5>3. CASE j = p + 1 /\ qsPrinted'[c][j] = queue[i]
          BY <2>2, <3>1, <3>6, <4>1, <5>1, <5>3 DEF InOrder, WaitingUp
        <5>. QED
          BY <4>2, <5>2, <5>3
      <4>5. \A j \in 1 .. p + 1 : qsPrinted'[c][j].from # c
        BY <3>1, <3>6, <4>1, <4>2 DEF InOrder
      <4>6. HandLatest(c) => HandLatest(c)'
        <5>1. HandLatest(c) => \A j \in 1 .. p + 1 :
                qsPrinted'[c][j].from = rcvbuf.from => qsPrinted'[c][j].text < rcvbuf.text
          BY <2>2, <4>1, <4>2 DEF HandLatest
        <5>2. HandLatest(c) => \A j \in 1 .. n - 1 :
                For(c, j)' /\ queue'[j].from = rcvbuf.from => queue'[j].text < rcvbuf.text
          BY <3>2, <3>6 DEF HandLatest
        <5>. QED
          BY <2>1, <2>5, <3>2, <5>1, <5>2 DEF HandLatest
      <4>. QED
        BY <2>5, <3>1, <3>3, <3>4, <3>6, <4>3, <4>4, <4>5, <4>6 DEF InOrder
    <3>. QED
      BY <3>5, <3>6
  <2>13. OwedInv'
    <3>1. Orderly' => Orderly
      BY <2>1, <2>6 DEF Orderly
    <3>2. \A x \in owed : x[1] \in ServerClients
      BY DEF ServerTypes
    <3>3. ASSUME NEW x \in owed, Orderly, Server!Proper(x[1]), Server!Reached(x[1], x[2])
          PROVE  Server!Reached(x[1], x[2])'
      <4>1. CASE \E j \in DOMAIN qsPrinted[x[1]] : /\ qsPrinted[x[1]][j].from = x[2].from
                                                   /\ qsPrinted[x[1]][j].text = x[2].text
        <5>1. PICK j \in 1 .. Len(qsPrinted[x[1]]) : /\ qsPrinted[x[1]][j].from = x[2].from
                                                     /\ qsPrinted[x[1]][j].text = x[2].text
          BY <2>4, <3>2, <4>1, Messages
        <5>2. j \in DOMAIN qsPrinted'[x[1]] /\ qsPrinted'[x[1]][j] = qsPrinted[x[1]][j]
          <6>1. CASE x[1] # c
            BY <2>4, <3>2, <4>1, <5>1, <6>1, Messages
          <6>2. CASE x[1] = c
            <7>1. DOMAIN qsPrinted'[c] = 1 .. p + 1
              BY <2>5, Messages
            <7>. QED
              BY <2>5, <5>1, <6>2, <7>1
          <6>. QED
            BY <6>1, <6>2
        <5>. QED
          BY <5>1, <5>2 DEF Server!Reached
      <4>2. ASSUME NEW j \in DOMAIN queue, queue[j].type = my_num[x[1]],
                   queue[j].from = x[2].from, queue[j].text = x[2].text
            PROVE  Server!Reached(x[1], x[2])'
        <5>1. CASE j # i
          <6>1. j \in 1 .. n
            BY <2>2
          <6>2. New(j, i) \in DOMAIN queue' /\ queue'[New(j, i)] = queue[j]
            BY <2>3, <5>1, <6>1, Messages
          <6>. QED
            BY <2>1, <4>2, <6>2 DEF Server!Reached
        <5>2. CASE j = i
          <6>1. x[1] = c
            <7>1. my_num[c] > 0
              BY <2>1, <3>3 DEF Orderly, Started
            <7>2. my_num[c] = my_num[x[1]]
              BY <2>2, <4>2, <5>2, <7>1
            <7>. QED
              BY <3>2, <3>3, <7>2 DEF Server!Proper
          <6>2. p + 1 \in DOMAIN qsPrinted'[c]
            BY <2>5, Messages
          <6>. QED
            BY <2>5, <4>2, <5>2, <6>1, <6>2 DEF Server!Reached
        <5>. QED
          BY <5>1, <5>2
      <4>3. CASE rcvbuf.from = x[2].from /\ rcvbuf.text = x[2].text /\ Server!Contains(qsTodo, my_num[x[1]])
        BY <2>1, <4>3 DEF Server!Reached, Server!Contains
      <4>. QED
        BY <3>3, <4>1, <4>2, <4>3 DEF Server!Reached
    <3>. QED
      BY <2>1, <2>6, <3>1, <3>2, <3>3 DEF OwedInv, Started
  <2>. QED
    BY <2>7, <2>8, <2>9, <2>10, <2>11, <2>12, <2>13
<1>. QED
  BY <1>1, <1>2

-----------------------------------------------------------------------------
(* The server *)

\* The list with a number more, or one less.
LEMMA ListChanges ==
  ASSUME ServerTypes, ListInv, NEW k \in Int, k \in InUse,
         NEW r, r \in {Server!add_client(k), Server!remove_client(k)}
  PROVE  /\ r \in Seq(Int) /\ \A i \in 1 .. Len(r) : r[i] \in InUse
         /\ \A i, j \in 1 .. Len(r) : r[i] = r[j] => i = j
<1>1. active \in Seq(Int) /\ Len(active) \in Nat
  BY LenProperties DEF ServerTypes
<1>2. CASE r = active
  BY <1>1, <1>2 DEF ListInv
<1>3. CASE r = Append(active, k) /\ ~Server!Contains(active, k)
  <2>1. /\ r \in Seq(Int) /\ Len(r) = Len(active) + 1
        /\ \A i \in 1 .. Len(active) : r[i] = active[i]
        /\ r[Len(active) + 1] = k
    BY <1>1, <1>3, Added
  <2>2. \A i \in 1 .. Len(active) : active[i] # k
    BY <1>3 DEF Server!Contains
  <2>3. ASSUME NEW i \in 1 .. Len(r)
        PROVE  \/ i \in 1 .. Len(active) /\ r[i] = active[i]
               \/ i = Len(active) + 1 /\ r[i] = k
    <3>1. CASE i = Len(active) + 1
      BY <2>1, <3>1
    <3>2. CASE i # Len(active) + 1
      BY <1>1, <2>1, <3>2
    <3>. QED
      BY <3>1, <3>2
  <2>. QED
    BY <2>1, <2>2, <2>3 DEF ListInv
<1>4. ASSUME NEW p \in 1 .. Len(active), r = Server!RemoveAt(active, p)
      PROVE  /\ r \in Seq(Int) /\ \A i \in 1 .. Len(r) : r[i] \in InUse
             /\ \A i, j \in 1 .. Len(r) : r[i] = r[j] => i = j
  <2>1. /\ r \in Seq(Int) /\ Len(r) = Len(active) - 1
        /\ \A i \in 1 .. Len(r) : Old(i, p) \in 1 .. Len(active) /\ r[i] = active[Old(i, p)]
        /\ \A i, j \in 1 .. Len(r) : i < j <=> Old(i, p) < Old(j, p)
    BY <1>1, <1>4, Taken
  <2>2. ASSUME NEW i \in 1 .. Len(r), NEW j \in 1 .. Len(r), r[i] = r[j] PROVE i = j
    <3>1. Old(i, p) = Old(j, p)
      BY <2>1, <2>2 DEF ListInv
    <3>2. ~(i < j) /\ ~(j < i)
      BY <2>1, <3>1
    <3>. QED
      BY <1>1, <2>1, <3>2
  <2>. QED
    BY <2>1, <2>2 DEF ListInv
<1>5. CASE r = Server!RemoveFirst(active, k) /\ Server!Contains(active, k)
  <2>. DEFINE I == {i \in 1 .. Len(active) : active[i] = k}
  <2>1. I # {} /\ I \in SUBSET Nat
    BY <1>1, <1>5 DEF Server!Contains
  <2>2. \E i \in I : \A j \in I : i <= j
    BY <2>1, NatMin
  <2>3. Server!Min(I) \in I
    BY <2>2 DEF Server!Min
  <2>4. r = Server!RemoveAt(active, Server!Min(I))
    BY <1>5, <2>1 DEF Server!RemoveFirst, Server!SelectInSeq
  <2>. QED
    BY <1>4, <2>3, <2>4
<1>. QED
  BY <1>2, <1>3, <1>5 DEF Server!add_client, Server!remove_client

LEMMA TakePreserves ==
  ASSUME ServerInv, Server!Take
  PROVE  ServerInv'
<1>. USE DEF ServerInv
<1>. DEFINE n == Len(queue)
<1>0. PICK i, m, k : i = Server!Pick(10) /\ m = queue[i] /\ k = my_num[m.from]
  OBVIOUS
<1>1. /\ qsServer = "up" /\ qsTodo = <<>> /\ i # 0
      /\ queue' = Server!RemoveAt(queue, i) /\ rcvbuf' = m
      /\ UNCHANGED <<msgid, qsServer, qsClient, my_num, draft, qsSends, qsKills, qsPrinted>>
      /\ \/ m.text = 0 /\ active' = Server!remove_client(k) /\ UNCHANGED <<qsTodo, owed>>
         \/ /\ m.text # 0 /\ active' = Server!add_client(k) /\ qsTodo' = active'
            /\ owed' = owed \union {<<c, m>> : c \in {d \in ServerClients :
                           qsClient[d] # "new" /\ my_num[d] \in Server!ToSet(qsTodo') \ {k}}}
  BY <1>0 DEF Server!Take, Server!SERVER, Server!shutdown
<1>2. /\ queue \in Seq(ServerMsg) /\ n \in Nat /\ i \in 1 .. n /\ msgid
      /\ m \in ServerMsg /\ m.from \in ServerClients /\ m.text \in Nat /\ m.type = 10
      /\ \A j \in 1 .. n : queue[j].type = 10 => i <= j
      /\ \A j \in 1 .. n : queue[j].from \in ServerClients /\ queue[j].text \in Nat
  <2>1. queue \in Seq(ServerMsg)
    BY DEF ServerTypes
  <2>2. 10 \in Int /\ 10 > 0
    OBVIOUS
  <2>3. msgid /\ i \in 1 .. n /\ queue[i].type = 10 /\ \A j \in 1 .. n : queue[j].type = 10 => i <= j
    BY <1>0, <1>1, <2>2, PickTakes
  <2>. QED
    BY <1>0, <2>1, <2>3, Messages
<1>3. /\ queue' \in Seq(ServerMsg) /\ Len(queue') = n - 1
      /\ \A j \in 1 .. n - 1 : Old(j, i) \in 1 .. n /\ Old(j, i) # i /\ queue'[j] = queue[Old(j, i)]
      /\ \A j, l \in 1 .. n - 1 : j < l => Old(j, i) < Old(l, i)
      /\ \A j \in 1 .. n : j # i => New(j, i) \in 1 .. n - 1 /\ queue'[New(j, i)] = queue[j]
  <2>1. queue \in Seq(ServerMsg) /\ i \in 1 .. Len(queue) /\ queue' = Server!RemoveAt(queue, i)
    BY <1>1, <1>2
  <2>2. /\ queue' \in Seq(ServerMsg) /\ Len(queue') = Len(queue) - 1
        /\ \A j \in 1 .. Len(queue') : /\ Old(j, i) \in 1 .. Len(queue) /\ Old(j, i) # i
                                       /\ queue'[j] = queue[Old(j, i)]
        /\ \A j, l \in 1 .. Len(queue') : j < l <=> Old(j, i) < Old(l, i)
        /\ \A j \in 1 .. Len(queue) : j # i => /\ New(j, i) \in 1 .. Len(queue')
                                               /\ queue'[New(j, i)] = queue[j]
    BY <2>1, Taken
  <2>. QED
    BY <2>2
<1>4. /\ \A d \in ServerClients : Started(d)' <=> Started(d)
      /\ InUse' = InUse /\ \A d \in ServerClients : Server!Proper(d)' <=> Server!Proper(d)
  <2>1. \A d \in ServerClients : Started(d)' <=> Started(d)
    BY <1>1 DEF Started
  <2>. QED
    BY <1>1, <2>1, NumbersStay
<1>5. Started(m.from) /\ k \in InUse /\ k \in Int
  BY <1>0, <1>2 DEF QueueInv, InUse, ServerTypes
<1>6. /\ active' \in Seq(Int) /\ \A j \in 1 .. Len(active') : active'[j] \in InUse
      /\ \A j, l \in 1 .. Len(active') : active'[j] = active'[l] => j = l
  BY <1>1, <1>5, ListChanges
<1>7. qsTodo' = <<>> \/ (m.text > 0 /\ qsTodo' = active')
  BY <1>1, <1>2
<1>8. ServerTypes'
  <2>1. rcvbuf' \in [type : Int, from : ServerClients \union {0}, text : Nat]
    BY <1>1, <1>2 DEF ServerMsg
  <2>2. qsTodo' \in Seq(Int)
    BY <1>6, <1>7, NoElements
  <2>3. owed' \subseteq ServerClients \X ServerMsg
    BY <1>1, <1>2 DEF ServerTypes
  <2>. QED
    BY <1>1, <1>3, <1>6, <2>1, <2>2, <2>3 DEF ServerTypes
<1>9. NumberInv' /\ ListInv' /\ QueueInv'
  <2>1. NumberInv'
    BY <1>1 DEF NumberInv, Started
  <2>2. ListInv'
    <3>1. Started(m.from)' /\ m.from \in ServerClients
      BY <1>1, <1>2, <1>5 DEF Started
    <3>2. CASE qsTodo' = <<>>
      BY <1>4, <1>6, <3>2, NoElements DEF ListInv
    <3>3. CASE m.text > 0 /\ qsTodo' = active'
      <4>1. rcvbuf'.from \in ServerClients /\ Started(rcvbuf.from)' /\ rcvbuf'.text > 0
        BY <1>1, <1>2, <1>5, <3>3 DEF Started
      <4>. QED
        BY <1>4, <1>6, <3>3, <4>1 DEF ListInv
    <3>. QED
      BY <1>7, <3>2, <3>3
  <2>3. QueueInv'
    BY <1>1, <1>2, <1>3, <1>4 DEF QueueInv, Started
  <2>. QED
    BY <2>1, <2>2, <2>3
<1>10. RequestInv'
  <2>1. \A j, l \in 1 .. n - 1 :
          j < l /\ Request(j)' /\ Request(l)' /\ queue'[j].from = queue'[l].from
          => queue'[j].text < queue'[l].text
    <3>. SUFFICES ASSUME NEW j \in 1 .. n - 1, NEW l \in 1 .. n - 1, j < l, Request(j)', Request(l)',
                         queue'[j].from = queue'[l].from
                  PROVE  queue'[j].text < queue'[l].text
      OBVIOUS
    <3>1. Request(Old(j, i)) /\ Request(Old(l, i)) /\ Old(j, i) < Old(l, i)
      BY <1>3 DEF Request
    <3>. QED
      BY <1>3, <3>1 DEF RequestInv
  <2>2. \A j \in 1 .. n - 1 : queue'[j].text <= qsSends
    BY <1>3 DEF RequestInv
  <2>3. m.text <= qsSends
    BY <1>0, <1>2 DEF RequestInv
  <2>. QED
    BY <1>1, <1>3, <2>1, <2>2, <2>3 DEF RequestInv
<1>11. LaterInv'
  <2>1. ASSUME NEW s \in ServerClients, NEW t \in Nat, Repeated(s, t)'
        PROVE  Repeated(s, t) \/ (s = m.from /\ t = m.text)
    <3>1. CASE rcvbuf'.from = s /\ rcvbuf'.text = t
      BY <1>1, <3>1
    <3>2. CASE \E j \in 1 .. n - 1 : queue'[j].type # 10 /\ queue'[j].from = s /\ queue'[j].text = t
      BY <1>3, <3>2 DEF Repeated
    <3>3. CASE \E d \in ServerClients : /\ Server!Proper(d)
                                        /\ \E j \in 1 .. Len(qsPrinted[d]) :
                                             qsPrinted[d][j].from = s /\ qsPrinted[d][j].text = t
      BY <3>3 DEF Repeated
    <3>. QED
      BY <1>1, <1>3, <1>4, <2>1, <3>1, <3>2, <3>3 DEF Repeated
  <2>2. \A j \in 1 .. n - 1 : Request(j)' /\ queue'[j].from = m.from => m.text < queue'[j].text
    <3>. SUFFICES ASSUME NEW j \in 1 .. n - 1, Request(j)', queue'[j].from = m.from
                  PROVE  m.text < queue'[j].text
      OBVIOUS
    <3>1. Old(j, i) \in 1 .. n /\ i < Old(j, i) /\ queue'[j] = queue[Old(j, i)] /\ Request(Old(j, i))
      BY <1>2, <1>3 DEF Request
    <3>2. CASE m.text = 0
      BY <3>1, <3>2 DEF Request
    <3>3. CASE m.text > 0
      BY <1>0, <1>2, <3>1, <3>3 DEF RequestInv, Request
    <3>. QED
      BY <1>0, <1>2, <3>2, <3>3
  <2>3. qsClient[m.from] = "msgsnd" /\ draft[m.from] > 0 => m.text < draft[m.from]
    <3>1. CASE m.text = 0
      BY <3>1
    <3>2. CASE m.text > 0
      BY <1>0, <1>2, <3>2 DEF LaterInv, Request
    <3>. QED
      BY <1>0, <1>2, <3>1, <3>2
  <2>4. \A s \in ServerClients : qsClient[s] = "msgsnd" /\ draft[s] > 0 =>
          \A j \in 1 .. n - 1 : Request(j)' /\ queue'[j].from = s => queue'[j].text < draft[s]
    BY <1>3 DEF LaterInv, Request
  <2>5. ASSUME NEW s \in ServerClients, NEW t \in Nat, Repeated(s, t)
        PROVE  /\ \A j \in 1 .. n - 1 : Request(j)' /\ queue'[j].from = s => t < queue'[j].text
               /\ qsClient[s] = "msgsnd" /\ draft[s] > 0 => t < draft[s]
    BY <1>3, <2>5 DEF LaterInv, Request
  <2>6. ASSUME NEW s \in ServerClients, NEW t \in Nat, Repeated(s, t)'
        PROVE  /\ \A j \in 1 .. n - 1 : Request(j)' /\ queue'[j].from = s => t < queue'[j].text
               /\ qsClient[s] = "msgsnd" /\ draft[s] > 0 => t < draft[s]
    BY <2>1, <2>2, <2>3, <2>5, <2>6
  <2>. QED
    BY <1>1, <1>3, <2>4, <2>6 DEF LaterInv
<1>12. PrintedInv'
  <2>. SUFFICES ASSUME NEW d \in ServerClients, Server!Proper(d) PROVE InOrder(d)'
    BY <1>4 DEF PrintedInv
  <2>1. InOrder(d) /\ my_num[d] # 10
    BY DEF PrintedInv, Server!Proper, Server!SERVER
  <2>2. /\ Len(queue') = n - 1
        /\ \A j \in 1 .. n - 1 : /\ Old(j, i) \in 1 .. n /\ queue'[j] = queue[Old(j, i)]
                                 /\ For(d, j)' => For(d, Old(j, i)) /\ queue'[j].type # 10
    BY <1>1, <1>3, <2>1 DEF For
  <2>3. WaitingUp(d)'
    <3>. SUFFICES ASSUME NEW j \in 1 .. n - 1, NEW l \in 1 .. n - 1, j < l, For(d, j)', For(d, l)',
                         queue'[j].from = queue'[l].from
                  PROVE  queue'[j].text < queue'[l].text
      BY <2>2 DEF WaitingUp
    <3>1. Old(j, i) < Old(l, i)
      BY <1>3
    <3>. QED
      BY <2>1, <2>2, <3>1 DEF InOrder, WaitingUp
  <2>4. PrintedUp(d)' /\ WaitingLater(d)'
    <3>1. PrintedUp(d)'
      BY <1>1, <2>1 DEF InOrder, PrintedUp
    <3>2. WaitingLater(d)'
      <4>. SUFFICES ASSUME NEW j \in 1 .. Len(qsPrinted[d]), NEW l \in 1 .. n - 1, For(d, l)',
                           qsPrinted[d][j].from = queue'[l].from
                    PROVE  qsPrinted[d][j].text < queue'[l].text
        BY <1>1, <2>2 DEF WaitingLater
      <4>. QED
        BY <2>1, <2>2 DEF InOrder, WaitingLater
    <3>. QED
      BY <3>1, <3>2
  <2>5. CASE qsTodo' = <<>>
    BY <1>1, <2>1, <2>3, <2>4, <2>5, NoElements DEF InOrder, Server!Contains
  <2>6. CASE m.text > 0 /\ qsTodo' = active'
    <3>1. Request(i)
      BY <1>0, <1>2, <2>6 DEF Request
    <3>2. \A t \in Nat : Repeated(m.from, t) => t < m.text
      BY <1>0, <1>2, <3>1 DEF LaterInv
    <3>3. ASSUME NEW j \in 1 .. Len(qsPrinted[d]), qsPrinted[d][j].from = m.from
          PROVE  qsPrinted[d][j].text < m.text
      <4>1. qsPrinted[d][j].text \in Nat
        BY Messages DEF ServerTypes
      <4>. QED
        BY <3>2, <3>3, <4>1 DEF Repeated
    <3>4. ASSUME NEW j \in 1 .. n - 1, For(d, j)', queue'[j].from = m.from
          PROVE  queue'[j].text < m.text
      <4>1. /\ Old(j, i) \in 1 .. n /\ queue'[j] = queue[Old(j, i)]
            /\ queue'[j].type # 10
        BY <2>2, <3>4
      <4>2. queue'[j].text \in Nat
        BY <1>2, <4>1
      <4>3. Repeated(m.from, queue'[j].text)
        BY <1>2, <3>4, <4>1 DEF Repeated
      <4>. QED
        BY <3>2, <4>2, <4>3
    <3>5. HandLatest(d)'
      BY <1>1, <1>3, <3>3, <3>4 DEF HandLatest
    <3>. QED
      BY <1>1, <2>1, <2>3, <2>4, <3>5 DEF InOrder
  <2>. QED
    BY <1>7, <2>5, <2>6
<1>13. OwedInv'
  <2>1. Orderly' => Orderly
    BY <1>1, <1>4 DEF Orderly
  <2>2. ASSUME NEW x \in owed, Server!Proper(x[1]), Server!Reached(x[1], x[2])
        PROVE  Server!Reached(x[1], x[2])'
    <3>1. my_num[x[1]] # 10
      BY <2>2 DEF Server!Proper, Server!SERVER
    <3>2. CASE \E j \in DOMAIN qsPrinted[x[1]] : /\ qsPrinted[x[1]][j].from = x[2].from
                                                 /\ qsPrinted[x[1]][j].text = x[2].text
      BY <1>1, <3>2 DEF Server!Reached
    <3>3. ASSUME NEW j \in DOMAIN queue, queue[j].type = my_num[x[1]],
                 queue[j].from = x[2].from, queue[j].text = x[2].text
          PROVE  Server!Reached(x[1], x[2])'
      <4>1. j \in 1 .. n /\ j # i
        BY <1>0, <1>2, <3>1, <3>3, Messages
      <4>2. New(j, i) \in DOMAIN queue' /\ queue'[New(j, i)] = queue[j]
        BY <1>3, <4>1, Messages
      <4>. QED
        BY <1>1, <3>3, <4>2 DEF Server!Reached
    <3>4. ~Server!Contains(qsTodo, my_num[x[1]])
      BY <1>1, NoElements DEF Server!Contains
    <3>. QED
      BY <2>2, <3>2, <3>3, <3>4 DEF Server!Reached
  <2>3. ASSUME NEW x \in owed', x \notin owed
        PROVE  Started(x[1]) /\ x[2].from # x[1] /\ Server!Reached(x[1], x[2])'
    <3>1. PICK c \in ServerClients : /\ x = <<c, m>> /\ qsClient[c] # "new" /\ qsTodo' = active'
                                     /\ my_num[c] \in Server!ToSet(qsTodo') \ {k}
      BY <1>1, <2>3
    <3>2. c # m.from
      BY <1>0, <3>1
    <3>3. Server!Contains(qsTodo, my_num[c])'
      <4>1. DOMAIN qsTodo' = 1 .. Len(qsTodo')
        BY <1>6, <3>1, LenProperties
      <4>. QED
        BY <1>1, <3>1, <4>1 DEF Server!ToSet, Server!Contains
    <3>4. Server!Reached(c, m)'
      BY <1>1, <3>3 DEF Server!Reached
    <3>. QED
      BY <3>1, <3>2, <3>4 DEF Started
  <2>4. \A x \in owed' : x[1] \in ServerClients
    BY <1>8 DEF ServerTypes
  <2>5. ASSUME NEW x \in owed'
        PROVE  /\ Started(x[1])' /\ x[2].from # x[1]
               /\ Orderly' /\ Server!Proper(x[1])' /\ qsClient'[x[1]] # "out" => Server!Reached(x[1], x[2])'
    <3>1. CASE x \in owed
      BY <1>1, <1>4, <2>1, <2>2, <2>4, <3>1 DEF OwedInv
    <3>2. CASE x \notin owed
      BY <1>4, <2>3, <2>4, <3>2
    <3>. QED
      BY <3>1, <3>2
  <2>6. qsKills' = 0 => qsServer' # "down"
    BY <1>1
  <2>. QED
    BY <2>5, <2>6 DEF OwedInv
<1>. QED
  BY <1>8, <1>9, <1>10, <1>11, <1>12, <1>13

\* A line that is passed on is put behind what the receiver has and waits for.
LEMMA ForwardPreserves ==
  ASSUME ServerInv, Server!Forward
  PROVE  ServerInv'
<1>. USE DEF ServerInv
<1>. DEFINE n == Len(queue)
<1>0. PICK receiver, s, m : /\ receiver = Head(qsTodo) /\ s = rcvbuf.from
                            /\ m = [type |-> receiver, from |-> s, text |-> rcvbuf.text]
  OBVIOUS
<1>1. /\ qsServer = "up" /\ qsTodo # <<>> /\ qsTodo' = Tail(qsTodo)
      /\ \/ (receiver = my_num[s] \/ receiver <= 0) /\ queue' = queue
         \/ receiver # my_num[s] /\ ~(receiver <= 0) /\ queue' = Append(queue, m)
      /\ UNCHANGED <<msgid, qsServer, active, rcvbuf, qsKills, qsClient, my_num, draft, qsSends,
                     qsPrinted, owed>>
  BY <1>0 DEF Server!Forward, Server!Message
<1>2. /\ receiver = qsTodo[1] /\ qsTodo' \in Seq(Int) /\ Len(qsTodo) \in Nat \ {0}
      /\ Len(qsTodo') = Len(qsTodo) - 1
      /\ \A i \in 1 .. Len(qsTodo) - 1 : qsTodo'[i] = qsTodo[i + 1]
  BY <1>0, <1>1, Rest DEF ServerTypes
<1>3. /\ receiver \in InUse /\ receiver \in Int /\ receiver # 10
      /\ s \in ServerClients /\ Started(s) /\ rcvbuf.text > 0 /\ rcvbuf.text \in Nat
  <2>1. receiver \in InUse
    BY <1>2 DEF ListInv
  <2>2. receiver \in Int /\ receiver # 10
    BY <2>1 DEF InUse, NumberInv, ServerTypes
  <2>3. s \in ServerClients /\ Started(s) /\ rcvbuf.text > 0 /\ rcvbuf.text \in Nat
    BY <1>0, <1>1 DEF ListInv, ServerTypes
  <2>. QED
    BY <2>1, <2>2, <2>3
<1>4. /\ queue \in Seq(ServerMsg) /\ n \in Nat /\ m \in ServerMsg
      /\ m.type = receiver /\ m.from = s /\ m.text = rcvbuf.text
      /\ \A i \in 1 .. n : queue[i].from \in ServerClients
  <2>1. queue \in Seq(ServerMsg)
    BY DEF ServerTypes
  <2>2. m \in ServerMsg /\ m.type = receiver /\ m.from = s /\ m.text = rcvbuf.text
    BY <1>0, <1>3 DEF ServerMsg
  <2>. QED
    BY <2>1, <2>2, Messages
<1>5. /\ queue' \in Seq(ServerMsg) /\ Len(queue') \in {n, n + 1}
      /\ \A i \in 1 .. n : queue'[i] = queue[i]
      /\ Len(queue') = n + 1 => queue'[n + 1] = m /\ receiver # my_num[s] /\ receiver > 0
      /\ receiver # my_num[s] /\ receiver > 0 => Len(queue') = n + 1
  <2>1. CASE queue' = queue /\ (receiver = my_num[s] \/ receiver <= 0)
    BY <1>3, <1>4, <2>1
  <2>2. CASE queue' = Append(queue, m) /\ receiver # my_num[s] /\ ~(receiver <= 0)
    BY <1>3, <1>4, <2>2, Added
  <2>. QED
    BY <1>1, <2>1, <2>2
<1>6. \A i \in 1 .. Len(queue') : \/ i \in 1 .. n /\ queue'[i] = queue[i]
                                  \/ i = n + 1 /\ queue'[i] = m /\ Len(queue') = n + 1
  BY <1>4, <1>5
<1>7. /\ \A d \in ServerClients : Started(d)' <=> Started(d)
      /\ InUse' = InUse /\ \A d \in ServerClients : Server!Proper(d)' <=> Server!Proper(d)
  <2>1. \A d \in ServerClients : Started(d)' <=> Started(d)
    BY <1>1 DEF Started
  <2>. QED
    BY <1>1, <2>1, NumbersStay
<1>8. ServerTypes'
  BY <1>1, <1>2, <1>5 DEF ServerTypes
<1>9. NumberInv' /\ ListInv' /\ QueueInv'
  <2>1. NumberInv'
    BY <1>1 DEF NumberInv, Started
  <2>2. ListInv'
    BY <1>0, <1>1, <1>2, <1>3, <1>7 DEF ListInv, Started
  <2>3. QueueInv'
    <3>. SUFFICES ASSUME NEW i \in 1 .. Len(queue')
                  PROVE  /\ queue'[i].type > 0 /\ qsClient[queue'[i].from] # "new"
                         /\ queue'[i].type # 10 => /\ queue'[i].text > 0 /\ queue'[i].type \in InUse
                                                   /\ queue'[i].type # my_num[queue'[i].from]
      BY <1>1, <1>7 DEF QueueInv, Started
    <3>1. CASE i \in 1 .. n /\ queue'[i] = queue[i]
      BY <3>1 DEF QueueInv, Started
    <3>2. CASE i = n + 1 /\ queue'[i] = m /\ Len(queue') = n + 1
      BY <1>3, <1>4, <1>5, <3>2 DEF Started
    <3>. QED
      BY <1>6, <3>1, <3>2
  <2>. QED
    BY <2>1, <2>2, <2>3
<1>10. /\ \A i \in 1 .. Len(queue') : Request(i)' => i \in 1 .. n /\ queue'[i] = queue[i] /\ Request(i)
  BY <1>3, <1>4, <1>6 DEF Request
<1>11. RequestInv'
  <2>1. \A i, j \in 1 .. Len(queue') :
          i < j /\ Request(i)' /\ Request(j)' /\ queue'[i].from = queue'[j].from
          => queue'[i].text < queue'[j].text
    BY <1>10 DEF RequestInv
  <2>2. \A i \in 1 .. Len(queue') : queue'[i].text <= qsSends
    BY <1>4, <1>6 DEF RequestInv
  <2>. QED
    BY <1>1, <2>1, <2>2 DEF RequestInv
<1>12. LaterInv'
  <2>1. ASSUME NEW d \in ServerClients, NEW t \in Nat, Repeated(d, t)' PROVE Repeated(d, t)
    <3>1. CASE \E i \in 1 .. Len(queue') : queue'[i].type # 10 /\ queue'[i].from = d /\ queue'[i].text = t
      BY <1>0, <1>4, <1>6, <3>1 DEF Repeated
    <3>2. CASE ~ \E i \in 1 .. Len(queue') : queue'[i].type # 10 /\ queue'[i].from = d /\ queue'[i].text = t
      BY <1>1, <1>7, <2>1, <3>2 DEF Repeated
    <3>. QED
      BY <3>1, <3>2
  <2>. QED
    BY <1>1, <1>10, <2>1 DEF LaterInv
<1>13. PrintedInv'
  <2>. SUFFICES ASSUME NEW d \in ServerClients, Server!Proper(d) PROVE InOrder(d)'
    BY <1>7 DEF PrintedInv
  <2>1. InOrder(d)
    BY DEF PrintedInv
  <2>2. Server!Contains(qsTodo, my_num[d])' => Server!Contains(qsTodo, my_num[d]) /\ my_num[d] # receiver
    <3>. SUFFICES ASSUME NEW i \in 1 .. Len(qsTodo) - 1, qsTodo'[i] = my_num[d]
                  PROVE  Server!Contains(qsTodo, my_num[d]) /\ my_num[d] # receiver
      BY <1>1, <1>2 DEF Server!Contains
    <3>1. i + 1 \in 1 .. Len(qsTodo) /\ i + 1 # 1 /\ qsTodo[i + 1] = my_num[d] /\ 1 \in 1 .. Len(qsTodo)
      BY <1>2
    <3>2. qsTodo[i + 1] # qsTodo[1]
      BY <3>1 DEF ListInv
    <3>. QED
      BY <1>2, <3>1, <3>2 DEF Server!Contains
  <2>3. my_num[d] = receiver => HandLatest(d)
    BY <1>2, <2>1 DEF InOrder, Server!Contains
  <2>4. ASSUME NEW i \in 1 .. Len(queue'), For(d, i)'
        PROVE  \/ i \in 1 .. n /\ queue'[i] = queue[i] /\ For(d, i)
               \/ i = n + 1 /\ queue'[i] = m /\ my_num[d] = receiver
    BY <1>1, <1>4, <1>6, <2>4 DEF For
  <2>5. WaitingUp(d)'
    <3>. SUFFICES ASSUME NEW i \in 1 .. Len(queue'), NEW j \in 1 .. Len(queue'), i < j,
                         For(d, i)', For(d, j)', queue'[i].from = queue'[j].from
                  PROVE  queue'[i].text < queue'[j].text
      BY DEF WaitingUp
    <3>1. i \in 1 .. n /\ queue'[i] = queue[i] /\ For(d, i)
      BY <1>4, <1>5, <2>4
    <3>2. CASE j \in 1 .. n /\ queue'[j] = queue[j] /\ For(d, j)
      BY <2>1, <3>1, <3>2 DEF InOrder, WaitingUp
    <3>3. CASE j = n + 1 /\ queue'[j] = m /\ my_num[d] = receiver
      BY <1>0, <1>4, <2>3, <3>1, <3>3 DEF HandLatest
    <3>. QED
      BY <2>4, <3>2, <3>3
  <2>6. WaitingLater(d)'
    <3>. SUFFICES ASSUME NEW i \in 1 .. Len(qsPrinted[d]), NEW j \in 1 .. Len(queue'),
                         For(d, j)', qsPrinted[d][i].from = queue'[j].from
                  PROVE  qsPrinted[d][i].text < queue'[j].text
      BY <1>1 DEF WaitingLater
    <3>1. CASE j \in 1 .. n /\ queue'[j] = queue[j] /\ For(d, j)
      BY <2>1, <3>1 DEF InOrder, WaitingLater
    <3>2. CASE j = n + 1 /\ queue'[j] = m /\ my_num[d] = receiver
      BY <1>0, <1>4, <2>3, <3>2 DEF HandLatest
    <3>. QED
      BY <2>4, <3>1, <3>2
  <2>7. PrintedUp(d)' /\ \A i \in 1 .. Len(qsPrinted[d]) : qsPrinted[d][i].from # d
    BY <1>1, <2>1 DEF InOrder, PrintedUp
  <2>8. HandLatest(d) /\ my_num[d] # receiver => HandLatest(d)'
    BY <1>1, <2>4 DEF HandLatest
  <2>. QED
    BY <1>1, <2>1, <2>2, <2>5, <2>6, <2>7, <2>8 DEF InOrder
<1>14. OwedInv'
  <2>1. Orderly' => Orderly
    BY <1>1, <1>7 DEF Orderly
  <2>2. \A x \in owed : x[1] \in ServerClients
    BY DEF ServerTypes
  <2>3. ASSUME NEW x \in owed, Server!Proper(x[1]), Server!Reached(x[1], x[2])
        PROVE  Server!Reached(x[1], x[2])'
    <3>1. CASE \E j \in DOMAIN qsPrinted[x[1]] : /\ qsPrinted[x[1]][j].from = x[2].from
                                                 /\ qsPrinted[x[1]][j].text = x[2].text
      BY <1>1, <3>1 DEF Server!Reached
    <3>2. CASE \E j \in DOMAIN queue : /\ queue[j].type = my_num[x[1]]
                                       /\ queue[j].from = x[2].from /\ queue[j].text = x[2].text
      <4>1. PICK j \in 1 .. n : /\ queue[j].type = my_num[x[1]]
                                /\ queue[j].from = x[2].from /\ queue[j].text = x[2].text
        BY <1>4, <3>2, Messages
      <4>2. j \in DOMAIN queue' /\ queue'[j] = queue[j]
        BY <1>4, <1>5, Messages
      <4>. QED
        BY <1>1, <4>1, <4>2 DEF Server!Reached
    <3>3. CASE rcvbuf.from = x[2].from /\ rcvbuf.text = x[2].text /\ Server!Contains(qsTodo, my_num[x[1]])
      <4>1. PICK j \in 1 .. Len(qsTodo) : qsTodo[j] = my_num[x[1]]
        BY <3>3 DEF Server!Contains
      <4>2. CASE j = 1
        <5>1. receiver = my_num[x[1]] /\ receiver > 10
          BY <1>2, <2>3, <4>1, <4>2 DEF Server!Proper, Server!SERVER
        <5>2. x[1] # s /\ my_num[s] # my_num[x[1]]
          BY <1>0, <1>3, <2>2, <2>3, <3>3 DEF OwedInv, Server!Proper
        <5>3. Len(queue') = n + 1 /\ queue'[n + 1] = m
          BY <1>3, <1>5, <5>1, <5>2
        <5>4. n + 1 \in DOMAIN queue'
          BY <1>4, <1>5, <5>3, Messages
        <5>. QED
          BY <1>0, <1>1, <1>4, <3>3, <5>1, <5>3, <5>4 DEF Server!Reached
      <4>3. CASE j # 1
        <5>1. j - 1 \in 1 .. Len(qsTodo') /\ qsTodo'[j - 1] = my_num[x[1]]
          BY <1>2, <4>1, <4>3
        <5>. QED
          BY <1>1, <3>3, <5>1 DEF Server!Reached, Server!Contains
      <4>. QED
        BY <4>2, <4>3
    <3>. QED
      BY <2>3, <3>1, <3>2, <3>3 DEF Server!Reached
  <2>. QED
    BY <1>1, <1>7, <2>1, <2>2, <2>3 DEF OwedInv, Started
<1>. QED
  BY <1>8, <1>9, <1>11, <1>12, <1>13, <1>14

-----------------------------------------------------------------------------
(* All steps *)

LEMMA ServerNext ==
  ASSUME ServerInv, [Next]_vars
  PROVE  ServerInv'
<1>1. CASE Server!Next
  <2>1. ASSUME NEW c \in ServerClients,
               Server!Start(c) \/ Server!Type(c) \/ Server!Wake(c) \/ Server!Drain(c)
        PROVE  ServerInv'
    BY <2>1, StartPreserves, TypePreserves, WakePreserves, DrainPreserves
  <2>2. ASSUME NEW c \in ServerClients, Server!Timeout(c) \/ Server!Leave(c)
        PROVE  ServerInv'
    BY <2>2, QuietOfClient
  <2>. QED
    BY <1>1, <2>1, <2>2, QuietOfServer, TakePreserves, ForwardPreserves DEF Server!Next
<1>2. CASE UNCHANGED qsVars
  <2>1. UNCHANGED <<queue, msgid, qsServer, active, qsTodo, rcvbuf, qsKills, qsClient, my_num, draft,
                    qsSends, qsPrinted, owed>>
    BY <1>2 DEF qsVars
  <2>2. ServerTypes' /\ \A d \in ServerClients : Started(d)' <=> Started(d)
    BY <2>1 DEF ServerInv, ServerTypes, Started
  <2>. QED
    BY <2>1, <2>2, QuietStep DEF ServerInv, OwedInv
<1>. QED
  BY <1>1, <1>2 DEF Next, vars

\* Whatever numbers the clients of module3/task6 are started with, one that has a number
\* of its own prints the lines of each other one in order, once, and none of its own;
\* while the server runs and all numbers are above 0, it has, or is still to get, each
\* line that came while it was on the list.
THEOREM LinesRepeatedInOrder == Spec => []RepeatedInOrder
<1>1. ASSUME ServerInv PROVE RepeatedInOrder
  <2>. USE <1>1 DEF ServerInv
  <2>1. ASSUME NEW c \in ServerClients, Server!Proper(c)
        PROVE  \A i, j \in DOMAIN qsPrinted[c] :
                 /\ qsPrinted[c][i].from # c
                 /\ i < j /\ qsPrinted[c][i].from = qsPrinted[c][j].from
                    => qsPrinted[c][i].text < qsPrinted[c][j].text
    <3>1. DOMAIN qsPrinted[c] = 1 .. Len(qsPrinted[c])
      BY LenProperties DEF ServerTypes
    <3>. QED
      BY <2>1, <3>1 DEF PrintedInv, InOrder, PrintedUp
  <2>2. (/\ qsServer = "up" /\ qsKills = 0
         /\ \A d \in ServerClients : qsClient[d] # "new" => my_num[d] > 0)
        => Orderly
    BY DEF Orderly, Started
  <2>3. ASSUME Orderly, NEW c \in ServerClients, Server!Proper(c), NEW x \in owed, x[1] = c, qsClient[c] # "out"
        PROVE  Server!Reached(c, x[2])
    BY <2>3 DEF OwedInv
  <2>. QED
    BY <2>1, <2>2, <2>3 DEF RepeatedInOrder, Server!RepeatedInOrder
<1>2. ServerInv /\ [Next]_vars => ServerInv'
  BY ServerNext
<1>. QED
  BY ServerInit, <1>1, <1>2, PTL DEF Spec

-----------------------------------------------------------------------------
(* The priority queue *)

\* Each list as it is walked: the k-th node from its head, 0 from the n[p]-th on.
IsList(n, l, p) ==
    /\ \A k \in Nat : l[p][k] # 0 <=> k < n[p]
    /\ heads[p] = l[p][0]
    /\ \A k \in Nat : k < n[p] =>
         /\ next[l[p][k]] = l[p][k + 1]
         /\ l[p][k] \in used /\ priority[l[p][k]] = p /\ data[l[p][k]] <= arrived
    /\ \A i, j \in Nat : i < j /\ j < n[p] => data[l[p][i]] < data[l[p][j]]

\* The nodes of the lists are different nodes.
Apart(n, l) == \A p, q \in Queue!Priorities : \A i, j \in Nat :
    i < n[p] /\ j < n[q] /\ l[p][i] = l[q][j] => p = q /\ i = j

Lists(n, l) ==
    /\ n \in [Queue!Priorities -> Nat]
    /\ l \in [Queue!Priorities -> [Nat -> QueueNodes \union {0}]]
    /\ \A p \in Queue!Priorities : IsList(n, l, p)
    /\ Apart(n, l)

PriorityTypes ==
    /\ heads \in [Queue!Priorities -> QueueNodes \union {0}]
    /\ next \in [QueueNodes -> QueueNodes \union {0}]
    /\ data \in [QueueNodes -> Nat] /\ priority \in [QueueNodes -> Nat]
    /\ used \subseteq QueueNodes /\ arrived \in Nat

\* Every list leads through nodes in use, in the order they came, and ends.
PriorityInv == PriorityTypes /\ \E n, l : Lists(n, l)

\* What the loop that follows next from a head sees.
Walk(p, f) == f = [k \in 0 .. Queue!Cardinality(QueueNodes) |->
                     IF k = 0 THEN heads[p] ELSE IF f[k - 1] = 0 THEN 0 ELSE next[f[k - 1]]]

\* A list has no more nodes than there are.
LEMMA ListEnds ==
  ASSUME NEW n, NEW l, Lists(n, l), NEW p \in Queue!Priorities
  PROVE  Queue!Cardinality(QueueNodes) \in Nat /\ n[p] <= Queue!Cardinality(QueueNodes)
<1>1. /\ IsFiniteSet(QueueNodes) /\ Cardinality(QueueNodes) \in Nat
      /\ Queue!Cardinality(QueueNodes) = Cardinality(QueueNodes)
  <2>1. Queue!Cardinality(QueueNodes) = Cardinality(QueueNodes)
    BY Zenon DEF Queue!Cardinality, Cardinality
  <2>. QED
    BY <2>1, ConcurrentAssumption, FS_CardinalityType DEF ConcurrentAssumption
<1>2. n[p] \in Nat /\ l[p] \in [Nat -> QueueNodes \union {0}]
  BY DEF Lists
<1>. DEFINE nodes == [k \in 0 .. n[p] - 1 |-> l[p][k]]
<1>3. \A k \in 0 .. n[p] - 1 : l[p][k] \in QueueNodes
  BY <1>2 DEF Lists, IsList
<1>4. \A i, j \in 0 .. n[p] - 1 : l[p][i] = l[p][j] => i = j
  BY <1>2 DEF Lists, Apart
<1>5. nodes \in Injection(0 .. n[p] - 1, QueueNodes)
  BY <1>3, <1>4 DEF Injection, IsInjective
<1>6. Cardinality(0 .. n[p] - 1) <= Cardinality(QueueNodes)
  BY <1>1, <1>5, FS_Injection
<1>7. Cardinality(0 .. n[p] - 1) = IF 0 > n[p] - 1 THEN 0 ELSE n[p] - 1 - 0 + 1
  BY <1>2, FS_Interval
<1>. QED
  BY <1>1, <1>2, <1>6, <1>7

\* The walk goes through the nodes of the list and no others.
LEMMA ChainOfList ==
  ASSUME PriorityTypes, NEW n, NEW l, Lists(n, l), NEW p \in Queue!Priorities
  PROVE  Queue!Chain(p) = {l[p][k] : k \in {i \in Nat : i < n[p]}}
<1>. DEFINE K == 0 .. Queue!Cardinality(QueueNodes)
            g == [k \in K |-> l[p][k]]
            c == CHOOSE f : Walk(p, f)
<1>1. /\ Queue!Cardinality(QueueNodes) \in Nat /\ n[p] \in Nat
      /\ n[p] <= Queue!Cardinality(QueueNodes)
  BY ListEnds DEF Lists
<1>2. /\ \A k \in Nat : l[p][k] # 0 <=> k < n[p]
      /\ heads[p] = l[p][0]
      /\ \A k \in Nat : k < n[p] => next[l[p][k]] = l[p][k + 1]
      /\ l[p] \in [Nat -> QueueNodes \union {0}]
  BY DEF Lists, IsList
<1>3. \A k \in K : k # 0 => l[p][k] = IF l[p][k - 1] = 0 THEN 0 ELSE next[l[p][k - 1]]
  <2>. SUFFICES ASSUME NEW k \in K, k # 0
                PROVE  l[p][k] = IF l[p][k - 1] = 0 THEN 0 ELSE next[l[p][k - 1]]
    OBVIOUS
  <2>1. k \in Nat /\ k - 1 \in Nat /\ (k - 1) + 1 = k
    BY <1>1
  <2>2. CASE k - 1 < n[p]
    BY <1>2, <2>1, <2>2
  <2>3. CASE ~(k - 1 < n[p])
    <3>1. l[p][k - 1] = 0 /\ ~(k < n[p])
      BY <1>1, <1>2, <2>1, <2>3
    <3>. QED
      BY <1>2, <2>1, <3>1
  <2>. QED
    BY <2>2, <2>3
<1>4. Walk(p, g)
  <2>1. \A k \in K : g[k] = IF k = 0 THEN heads[p] ELSE IF g[k - 1] = 0 THEN 0 ELSE next[g[k - 1]]
    BY <1>1, <1>2, <1>3
  <2>. HIDE DEF g
  <2>2. g = [k \in K |-> g[k]]
    BY DEF g
  <2>. QED
    BY <2>1, <2>2 DEF Walk
<1>5. Walk(p, c)
  BY <1>4, Zenon
<1>6. DOMAIN c = K /\ \A k \in K : c[k] = g[k]
  <2>. HIDE DEF c
  <2>1. DOMAIN c = K
    BY <1>5 DEF Walk
  <2>2. \A k \in K : c[k] = IF k = 0 THEN heads[p] ELSE IF c[k - 1] = 0 THEN 0 ELSE next[c[k - 1]]
    BY <1>5 DEF Walk
  <2>. DEFINE T == {k \in K : c[k] # l[p][k]}
  <2>3. ASSUME T # {} PROVE FALSE
    <3>1. T \subseteq Nat
      BY <1>1
    <3>2. PICK k \in T : \A j \in T : k <= j
      BY <2>3, <3>1, NatMin
    <3>3. k # 0
      BY <1>1, <1>2, <2>2
    <3>4. k - 1 \in K /\ c[k - 1] = l[p][k - 1]
      BY <1>1, <3>2, <3>3
    <3>5. c[k] = l[p][k]
      BY <1>3, <2>2, <3>3, <3>4
    <3>. QED
      BY <3>5
  <2>. QED
    BY <2>1, <2>3
<1>7. Queue!Chain(p) = {c[k] : k \in DOMAIN c} \ {0}
  BY Zenon DEF Queue!Chain, Walk
<1>8. Queue!Chain(p) = {l[p][k] : k \in K} \ {0}
  <2>. HIDE DEF c
  <2>. QED
    BY <1>6, <1>7
<1>9. {l[p][k] : k \in K} \ {0} = {l[p][k] : k \in {i \in Nat : i < n[p]}}
  <2>1. \A k \in K : k \in Nat
    BY <1>1
  <2>2. \A k \in Nat : k < n[p] => k \in K
    BY <1>1
  <2>. QED
    BY <1>2, <2>1, <2>2
<1>. QED
  BY <1>8, <1>9

\* The requests that wait are those of the nodes of the lists.
WaitingIs(n, l) == \A r :
    r \in Queue!Waiting <=> \E p \in Queue!Priorities : \E k \in Nat :
                              k < n[p] /\ r = [order |-> data[l[p][k]], priority |-> p]

WaitingKnown == \A n, l : Lists(n, l) => WaitingIs(n, l)

LEMMA WaitingOfLists == PriorityTypes => WaitingKnown
<1>. SUFFICES ASSUME PriorityTypes, NEW n, NEW l, Lists(n, l), NEW r
              PROVE  r \in Queue!Waiting <=> \E p \in Queue!Priorities : \E k \in Nat :
                       k < n[p] /\ r = [order |-> data[l[p][k]], priority |-> p]
  BY DEF WaitingIs, WaitingKnown
<1>1. \A p \in Queue!Priorities : \A x :
        x \in used /\ x \in Queue!Chain(p) <=> \E k \in Nat : k < n[p] /\ x = l[p][k]
  <2>1. \A p \in Queue!Priorities : Queue!Chain(p) = {l[p][k] : k \in {i \in Nat : i < n[p]}}
    BY ChainOfList
  <2>2. \A p \in Queue!Priorities : \A k \in Nat : k < n[p] => l[p][k] \in used
    BY DEF Lists, IsList
  <2>. QED
    BY <2>1, <2>2
<1>2. r \in Queue!Waiting <=> \E y \in used \X Queue!Priorities :
        y[1] \in Queue!Chain(y[2]) /\ r = [order |-> data[y[1]], priority |-> y[2]]
  BY DEF Queue!Waiting
<1>3. r \in Queue!Waiting <=> \E x \in used, p \in Queue!Priorities :
        x \in Queue!Chain(p) /\ r = [order |-> data[x], priority |-> p]
  <2>1. ASSUME NEW y \in used \X Queue!Priorities, y[1] \in Queue!Chain(y[2]),
               r = [order |-> data[y[1]], priority |-> y[2]]
        PROVE  \E x \in used, p \in Queue!Priorities :
                 x \in Queue!Chain(p) /\ r = [order |-> data[x], priority |-> p]
    BY <2>1
  <2>2. ASSUME NEW x \in used, NEW p \in Queue!Priorities, x \in Queue!Chain(p),
               r = [order |-> data[x], priority |-> p]
        PROVE  \E y \in used \X Queue!Priorities :
                 y[1] \in Queue!Chain(y[2]) /\ r = [order |-> data[y[1]], priority |-> y[2]]
    <3>1. <<x, p>> \in used \X Queue!Priorities /\ <<x, p>>[1] = x /\ <<x, p>>[2] = p
      OBVIOUS
    <3>. QED
      BY <2>2, <3>1
  <2>. QED
    BY <1>2, <2>1, <2>2
<1>. QED
  BY <1>1, <1>3


LEMMA PriorityInit ==
  ASSUME Queue!Init
  PROVE  PriorityInv /\ Queue!Service!Init
<1>. DEFINE n == [p \in Queue!Priorities |-> 0]
            l == [p \in Queue!Priorities |-> [k \in Nat |-> 0]]
<1>1. PriorityTypes
  BY DEF Queue!Init, PriorityTypes
<1>2. Lists(n, l)
  BY DEF Queue!Init, Lists, IsList, Apart
<1>. QED
  BY <1>1, <1>2 DEF PriorityInv, Queue!Init, Queue!Service!Init, Queue!Waiting

\* The node of a list that leads nowhere is its last one.
LEMMA LastOfList ==
  ASSUME PriorityTypes, NEW n, NEW l, Lists(n, l), NEW p \in Queue!Priorities,
         NEW last \in Queue!Chain(p), next[last] = 0
  PROVE  n[p] \in Nat \ {0} /\ last = l[p][n[p] - 1]
<1>1. PICK k \in Nat : k < n[p] /\ last = l[p][k]
  BY ChainOfList
<1>2. n[p] \in Nat /\ l[p][k + 1] = 0
  BY <1>1 DEF Lists, IsList
<1>3. ~(k + 1 < n[p])
  BY <1>2 DEF Lists, IsList
<1>. QED
  BY <1>1, <1>2, <1>3

\* A request put at the end of its list.
LEMMA EnqueuePuts ==
  ASSUME PriorityInv, NEW p \in Queue!Priorities, Queue!enqueue(p)
  PROVE  PriorityInv' /\ Queue!Service!Put
<1>0. PICK n, l : Lists(n, l)
  BY DEF PriorityInv
<1>. USE <1>0
<1>1. PICK e \in QueueNodes \ used :
        /\ arrived < QueueArrivals /\ arrived' = arrived + 1
        /\ used' = used \union {e}
        /\ data' = [data EXCEPT ![e] = arrived']
        /\ priority' = [priority EXCEPT ![e] = p]
        /\ \/ /\ heads[p] = 0
              /\ heads' = [heads EXCEPT ![p] = e]
              /\ next' = [next EXCEPT ![e] = 0]
           \/ \E last \in Queue!Chain(p) :
                 /\ next[last] = 0
                 /\ next' = [next EXCEPT ![e] = 0, ![last] = e]
                 /\ UNCHANGED heads
        /\ UNCHANGED taken
  BY DEF Queue!enqueue
<1>2. PriorityTypes /\ e # 0 /\ n[p] \in Nat /\ p \in Nat
  BY ConcurrentAssumption DEF ConcurrentAssumption, PriorityInv, Lists, Queue!Priorities
<1>. DEFINE m == [n EXCEPT ![p] = @ + 1]
            g == [l EXCEPT ![p] = [@ EXCEPT ![n[p]] = e]]
<1>3. /\ m \in [Queue!Priorities -> Nat]
      /\ g \in [Queue!Priorities -> [Nat -> QueueNodes \union {0}]]
      /\ m[p] = n[p] + 1 /\ \A q \in Queue!Priorities : q # p => m[q] = n[q]
      /\ g[p][n[p]] = e /\ \A k \in Nat : k # n[p] => g[p][k] = l[p][k]
      /\ \A q \in Queue!Priorities : q # p => g[q] = l[q]
  BY <1>2 DEF Lists
<1>4. /\ data'[e] = arrived + 1 /\ priority'[e] = p
      /\ \A x \in QueueNodes : x # e => data'[x] = data[x] /\ priority'[x] = priority[x]
  BY <1>1, <1>2 DEF PriorityTypes
\* What changes of heads and next: the end of the list and the new node.
<1>5. /\ heads' \in [Queue!Priorities -> QueueNodes \union {0}]
      /\ next' \in [QueueNodes -> QueueNodes \union {0}]
      /\ next'[e] = 0
      /\ heads'[p] = g[p][0]
      /\ n[p] # 0 => next'[l[p][n[p] - 1]] = e
      /\ \A q \in Queue!Priorities : q # p => heads'[q] = heads[q]
      /\ \A x \in QueueNodes : x # e /\ (n[p] # 0 => x # l[p][n[p] - 1]) => next'[x] = next[x]
  <2>1. CASE /\ heads[p] = 0
             /\ heads' = [heads EXCEPT ![p] = e]
             /\ next' = [next EXCEPT ![e] = 0]
    <3>1. n[p] = 0
      BY <1>2, <2>1 DEF Lists, IsList
    <3>. QED
      BY <1>2, <1>3, <2>1, <3>1 DEF PriorityTypes
  <2>2. CASE \E last \in Queue!Chain(p) :
                 /\ next[last] = 0
                 /\ next' = [next EXCEPT ![e] = 0, ![last] = e]
                 /\ UNCHANGED heads
    <3>1. PICK last \in Queue!Chain(p) : /\ next[last] = 0
                                         /\ next' = [next EXCEPT ![e] = 0, ![last] = e]
                                         /\ UNCHANGED heads
      BY <2>2
    <3>2. n[p] \in Nat \ {0} /\ last = l[p][n[p] - 1]
      BY <1>2, <3>1, LastOfList
    <3>3. last \in used /\ last \in QueueNodes /\ last # e
      BY <1>1, <1>2, <3>2 DEF Lists, IsList, PriorityTypes
    <3>4. g[p][0] = l[p][0] /\ heads[p] = l[p][0]
      BY <1>3, <3>2 DEF Lists, IsList
    <3>. QED
      BY <1>2, <3>1, <3>2, <3>3, <3>4 DEF PriorityTypes
  <2>. QED
    BY <1>1, <2>1, <2>2
<1>6. PriorityTypes'
  BY <1>1, <1>2, <1>5 DEF PriorityTypes
<1>. HIDE DEF m, g
\* Every other list is as it was.
<1>7. \A q \in Queue!Priorities : \A k \in Nat : k < n[q] =>
        /\ l[q][k] \in used /\ l[q][k] \in QueueNodes /\ l[q][k] # e /\ l[q][k] # 0
        /\ (q # p \/ k # n[p] - 1) => next'[l[q][k]] = next[l[q][k]]
        /\ data'[l[q][k]] = data[l[q][k]] /\ priority'[l[q][k]] = priority[l[q][k]]
  <2>. SUFFICES ASSUME NEW q \in Queue!Priorities, NEW k \in Nat, k < n[q]
                PROVE  /\ l[q][k] \in used /\ l[q][k] \in QueueNodes /\ l[q][k] # e /\ l[q][k] # 0
                       /\ (q # p \/ k # n[p] - 1) => next'[l[q][k]] = next[l[q][k]]
                       /\ data'[l[q][k]] = data[l[q][k]] /\ priority'[l[q][k]] = priority[l[q][k]]
    OBVIOUS
  <2>1. l[q][k] \in used /\ l[q][k] \in QueueNodes /\ l[q][k] # e /\ l[q][k] # 0
    BY <1>1, <1>2 DEF Lists, IsList, PriorityTypes
  <2>2. (q # p \/ k # n[p] - 1) /\ n[p] # 0 => l[q][k] # l[p][n[p] - 1]
    BY <1>2 DEF Lists, Apart
  <2>. QED
    BY <1>4, <1>5, <2>1, <2>2
<1>8. ASSUME NEW q \in Queue!Priorities, q # p PROVE IsList(m, g, q)'
  <2>1. IsList(n, l, q) /\ m[q] = n[q] /\ g[q] = l[q] /\ heads'[q] = heads[q]
    BY <1>3, <1>5, <1>8 DEF Lists
  <2>2. n[q] \in Nat
    BY DEF Lists
  <2>3. \A k \in Nat : k < n[q] =>
          /\ next'[l[q][k]] = l[q][k + 1]
          /\ l[q][k] \in used' /\ priority'[l[q][k]] = q /\ data'[l[q][k]] <= arrived'
    BY <1>1, <1>2, <1>7, <1>8, <2>1 DEF IsList, PriorityTypes
  <2>4. \A i, j \in Nat : i < j /\ j < n[q] => data'[l[q][i]] < data'[l[q][j]]
    BY <1>7, <2>1, <2>2 DEF IsList
  <2>. QED
    BY <2>1, <2>3, <2>4 DEF IsList
<1>9. IsList(m, g, p)'
  <2>1. IsList(n, l, p)
    BY DEF Lists
  <2>2. \A k \in Nat : g[p][k] # 0 <=> k < m[p]
    BY <1>2, <1>3, <2>1 DEF IsList
  <2>3. ASSUME NEW k \in Nat, k < m[p]
        PROVE  /\ next'[g[p][k]] = g[p][k + 1]
               /\ g[p][k] \in used' /\ priority'[g[p][k]] = p /\ data'[g[p][k]] <= arrived'
    <3>1. CASE k = n[p]
      <4>1. g[p][k] = e /\ g[p][k + 1] = 0
        BY <1>2, <1>3, <2>2, <3>1
      <4>. QED
        BY <1>1, <1>2, <1>4, <1>5, <4>1 DEF PriorityTypes
    <3>2. CASE k # n[p]
      <4>1. k < n[p] /\ g[p][k] = l[p][k]
        BY <1>2, <1>3, <2>3, <3>2
      <4>2. l[p][k] \in used' /\ priority'[l[p][k]] = p /\ data'[l[p][k]] <= arrived'
        BY <1>1, <1>2, <1>7, <2>1, <4>1 DEF IsList, PriorityTypes
      <4>3. next'[l[p][k]] = g[p][k + 1]
        <5>1. CASE k = n[p] - 1
          BY <1>2, <1>3, <1>5, <5>1
        <5>2. CASE k # n[p] - 1
          BY <1>2, <1>3, <1>7, <2>1, <4>1, <5>2 DEF IsList
        <5>. QED
          BY <5>1, <5>2
      <4>. QED
        BY <4>1, <4>2, <4>3
    <3>. QED
      BY <3>1, <3>2
  <2>4. ASSUME NEW i \in Nat, NEW j \in Nat, i < j, j < m[p]
        PROVE  data'[g[p][i]] < data'[g[p][j]]
    <3>1. i < n[p] /\ g[p][i] = l[p][i] /\ data'[l[p][i]] = data[l[p][i]] /\ data[l[p][i]] <= arrived
      BY <1>2, <1>3, <1>7, <2>1, <2>4 DEF IsList
    <3>2. CASE j = n[p]
      <4>1. data[l[p][i]] \in Nat /\ arrived \in Nat
        BY <1>2, <1>7, <3>1 DEF PriorityTypes
      <4>. QED
        BY <1>3, <1>4, <3>1, <3>2, <4>1
    <3>3. CASE j # n[p]
      BY <1>2, <1>3, <1>7, <2>1, <2>4, <3>1, <3>3 DEF IsList
    <3>. QED
      BY <3>2, <3>3
  <2>5. heads'[p] = g[p][0]
    BY <1>5
  <2>. QED
    BY <2>2, <2>3, <2>4, <2>5 DEF IsList
<1>10. Apart(m, g)
  <2>. SUFFICES ASSUME NEW q \in Queue!Priorities, NEW r \in Queue!Priorities, NEW i \in Nat, NEW j \in Nat,
                       i < m[q], j < m[r], g[q][i] = g[r][j]
                PROVE  q = r /\ i = j
    BY DEF Apart
  <2>1. /\ (q = p /\ i = n[p] /\ g[q][i] = e) \/ (i < n[q] /\ g[q][i] = l[q][i] /\ l[q][i] # e)
        /\ (r = p /\ j = n[p] /\ g[r][j] = e) \/ (j < n[r] /\ g[r][j] = l[r][j] /\ l[r][j] # e)
    BY <1>2, <1>3, <1>7
  <2>. QED
    BY <2>1 DEF Lists, Apart
<1>11. Lists(m, g)'
  <2>1. m \in [Queue!Priorities -> Nat] /\ g \in [Queue!Priorities -> [Nat -> QueueNodes \union {0}]]
    BY <1>3
  <2>2. \A q \in Queue!Priorities : IsList(m, g, q)'
    BY <1>8, <1>9
  <2>. QED
    BY <1>10, <2>1, <2>2 DEF Lists, Apart, Queue!Priorities
<1>12. PriorityInv'
  BY <1>6, <1>11 DEF PriorityInv
<1>13. Queue!Waiting' = Queue!Waiting \union {[order |-> arrived', priority |-> p]}
  <2>1. \A r : r \in Queue!Waiting <=>
          \E q \in Queue!Priorities : \E k \in Nat :
             k < n[q] /\ r = [order |-> data[l[q][k]], priority |-> q]
    <3>1. WaitingIs(n, l)
      BY <1>2, WaitingOfLists DEF WaitingKnown
    <3>. QED
      BY <3>1 DEF WaitingIs
  <2>2. \A r : r \in Queue!Waiting' <=>
          \E q \in Queue!Priorities : \E k \in Nat :
             k < m[q] /\ r = [order |-> data'[g[q][k]], priority |-> q]
    <3>1. PriorityTypes' => WaitingKnown'
      BY WaitingOfLists, PTL
    <3>2. WaitingIs(m, g)'
      BY <1>6, <1>11, <3>1 DEF WaitingKnown
    <3>. QED
      BY <3>2 DEF WaitingIs, Queue!Priorities
  <2>3. ASSUME NEW r, NEW q \in Queue!Priorities, NEW k \in Nat,
               k < n[q], r = [order |-> data[l[q][k]], priority |-> q]
        PROVE  r \in Queue!Waiting'
    <3>1. k < m[q] /\ g[q][k] = l[q][k] /\ data'[l[q][k]] = data[l[q][k]]
      BY <1>2, <1>3, <1>7, <2>3
    <3>. QED
      BY <2>2, <2>3, <3>1
  <2>4. [order |-> arrived', priority |-> p] \in Queue!Waiting'
    BY <1>1, <1>2, <1>3, <1>4, <2>2
  <2>5. ASSUME NEW r, NEW q \in Queue!Priorities, NEW k \in Nat,
               k < m[q], r = [order |-> data'[g[q][k]], priority |-> q]
        PROVE  r \in Queue!Waiting \union {[order |-> arrived', priority |-> p]}
    <3>1. \/ q = p /\ k = n[p] /\ data'[g[q][k]] = arrived'
          \/ k < n[q] /\ data'[g[q][k]] = data[l[q][k]]
      BY <1>1, <1>2, <1>3, <1>4, <1>7, <2>5
    <3>. QED
      BY <2>1, <2>5, <3>1
  <2>. QED
    BY <2>1, <2>2, <2>3, <2>4, <2>5
<1>14. Queue!Service!Put
  BY <1>1, <1>13 DEF Queue!Service!Put, Queue!Priorities
<1>. QED
  BY <1>12, <1>14


\* A set of natural numbers with a bound has a greatest element.
LEMMA NatMax ==
  ASSUME NEW T \in SUBSET Nat, T # {}, NEW b \in Nat, \A m \in T : m <= b
  PROVE  \E n \in T : \A m \in T : m <= n
<1>. DEFINE U == {k \in Nat : b - k \in T}
<1>1. \A m \in T : b - m \in U /\ b - (b - m) = m
  OBVIOUS
<1>2. PICK u \in U : \A v \in U : u <= v
  BY <1>1, NatMin
<1>3. \A m \in T : u <= b - m
  BY <1>1, <1>2
<1>. QED
  BY <1>3

LEMMA QuietLists ==
  ASSUME PriorityInv, UNCHANGED <<heads, next, data, priority, used, arrived>>
  PROVE  PriorityInv'
<1>1. PICK n, l : Lists(n, l)
  BY DEF PriorityInv
<1>2. \A p \in Queue!Priorities : IsList(n, l, p)'
  BY <1>1 DEF Lists, IsList
<1>3. Lists(n, l)'
  BY <1>1, <1>2 DEF Lists, Apart, Queue!Priorities
<1>4. PriorityTypes'
  BY DEF PriorityInv, PriorityTypes, Queue!Priorities
<1>. QED
  BY <1>3, <1>4 DEF PriorityInv

\* The earliest request of the highest priority in the range is taken.
LEMMA DequeueTakes ==
  ASSUME PriorityInv, NEW low \in Queue!Priorities, NEW high \in Queue!Priorities,
         Queue!Dequeue(low, high)
  PROVE  PriorityInv' /\ Queue!Service!Take(low, high)
<1>0. PICK n, l : Lists(n, l)
  BY DEF PriorityInv
<1>. USE <1>0
<1>. DEFINE full == {i \in low .. high : heads[i] # 0}
            best == CHOOSE i \in full : \A j \in full : j <= i
            node == heads[best]
            fit  == {r \in Queue!Waiting : r.priority \in low .. high}
<1>1. /\ PriorityTypes /\ QueuePriorities \in Nat
      /\ low \in Nat /\ high \in Nat /\ low .. high \subseteq Queue!Priorities
      /\ Queue!Priorities \subseteq Nat
  BY ConcurrentAssumption DEF ConcurrentAssumption, PriorityInv, Queue!Priorities
<1>2. /\ \/ full = {} /\ taken' = <<>> /\ UNCHANGED <<heads, used>>
         \/ /\ full # {}
            /\ heads' = [heads EXCEPT ![best] = next[node]]
            /\ used' = used \ {node}
            /\ taken' = <<[order |-> data[node], priority |-> priority[node]]>>
      /\ UNCHANGED <<next, data, priority, arrived>>
  BY Zenon DEF Queue!Dequeue
<1>3. \A r : r \in Queue!Waiting <=>
        \E q \in Queue!Priorities : \E k \in Nat :
           k < n[q] /\ r = [order |-> data[l[q][k]], priority |-> q]
  <2>1. WaitingIs(n, l)
    BY <1>1, WaitingOfLists DEF WaitingKnown
  <2>. QED
    BY <2>1 DEF WaitingIs
<1>4. \A q \in Queue!Priorities : \A k \in Nat : k < n[q] => heads[q] # 0
  BY DEF Lists, IsList
<1>5. CASE full = {} /\ taken' = <<>> /\ UNCHANGED <<heads, used>>
  <2>1. UNCHANGED <<heads, next, data, priority, used, arrived>>
    BY <1>2, <1>5
  <2>2. PriorityInv'
    BY <2>1, QuietLists
  <2>3. Queue!Waiting' = Queue!Waiting
    BY <2>1 DEF Queue!Waiting, Queue!Chain, Queue!Priorities
  <2>4. fit = {}
    <3>1. ASSUME NEW r \in Queue!Waiting, r.priority \in low .. high PROVE FALSE
      <4>1. PICK q \in Queue!Priorities : \E k \in Nat :
               k < n[q] /\ r = [order |-> data[l[q][k]], priority |-> q]
        BY <1>3
      <4>2. heads[q] # 0 /\ r.priority = q
        BY <1>4, <4>1
      <4>. QED
        BY <1>5, <3>1, <4>2
    <3>. QED
      BY <3>1
  <2>. QED
    BY <1>2, <1>5, <2>2, <2>3, <2>4 DEF Queue!Service!Take
<1>6. CASE /\ full # {}
           /\ heads' = [heads EXCEPT ![best] = next[node]]
           /\ used' = used \ {node}
           /\ taken' = <<[order |-> data[node], priority |-> priority[node]]>>
  <2>0. best \in full /\ \A j \in full : j <= best
    <3>1. full \in SUBSET Nat /\ \A j \in full : j <= high
      BY <1>1
    <3>2. \E i \in full : \A j \in full : j <= i
      BY <1>1, <1>6, <3>1, NatMax
    <3>. QED
      BY <3>2
  <2>. HIDE DEF best
  <2>1. PICK top, e : /\ top = best /\ e = heads[top]
                      /\ top \in full /\ \A j \in full : j <= top
    BY <2>0
  <2>18. /\ heads' = [heads EXCEPT ![top] = next[e]]
        /\ used' = used \ {e}
        /\ taken' = <<[order |-> data[e], priority |-> priority[e]]>>
    BY <1>6, <2>1
  <2>2. /\ top \in Queue!Priorities /\ top \in low .. high
        /\ heads[top] # 0 /\ n[top] \in Nat \ {0} /\ e = l[top][0]
    BY <1>1, <2>1 DEF Lists, IsList
  <2>3. /\ next[e] = l[top][1] /\ e \in used /\ e \in QueueNodes /\ priority[e] = top
        /\ data[e] \in Nat /\ l[top] \in [Nat -> QueueNodes \union {0}]
    BY <1>1, <2>2 DEF Lists, IsList, PriorityTypes
  <2>. DEFINE m == [n EXCEPT ![top] = @ - 1]
              g == [l EXCEPT ![top] = [k \in Nat |-> l[top][k + 1]]]
  <2>4. /\ m \in [Queue!Priorities -> Nat]
        /\ g \in [Queue!Priorities -> [Nat -> QueueNodes \union {0}]]
        /\ m[top] = n[top] - 1 /\ \A q \in Queue!Priorities : q # top => m[q] = n[q]
        /\ \A k \in Nat : g[top][k] = l[top][k + 1]
        /\ \A q \in Queue!Priorities : q # top => g[q] = l[q]
    BY <2>2, <2>3 DEF Lists
  <2>5. /\ heads' \in [Queue!Priorities -> QueueNodes \union {0}]
        /\ heads'[top] = l[top][1]
        /\ \A q \in Queue!Priorities : q # top => heads'[q] = heads[q]
    BY <1>1, <2>18, <2>2, <2>3 DEF PriorityTypes
  <2>6. PriorityTypes'
    BY <1>1, <1>2, <2>18, <2>5, <2>2 DEF PriorityTypes
  <2>. HIDE DEF m, g
  \* The nodes that stay.
  <2>7. \A q \in Queue!Priorities : \A k \in Nat : k < n[q] /\ (q # top \/ k # 0) => l[q][k] # e
    BY <2>2 DEF Lists, Apart
  <2>8. ASSUME NEW q \in Queue!Priorities, q # top PROVE IsList(m, g, q)'
    <3>1. IsList(n, l, q) /\ m[q] = n[q] /\ g[q] = l[q] /\ heads'[q] = heads[q]
      BY <2>4, <2>5, <2>8 DEF Lists
    <3>. QED
      BY <1>2, <2>18, <2>7, <2>8, <3>1 DEF IsList
  <2>9. IsList(m, g, top)'
    <3>1. IsList(n, l, top)
      BY <2>2 DEF Lists
    <3>2. \A k \in Nat : g[top][k] # 0 <=> k < m[top]
      BY <2>2, <2>4, <3>1 DEF IsList
    <3>3. ASSUME NEW k \in Nat, k < m[top]
          PROVE  /\ next'[g[top][k]] = g[top][k + 1]
                 /\ g[top][k] \in used' /\ priority'[g[top][k]] = top /\ data'[g[top][k]] <= arrived'
      <4>1. k + 1 \in Nat /\ k + 1 < n[top] /\ g[top][k] = l[top][k + 1] /\ g[top][k + 1] = l[top][k + 1 + 1]
        BY <2>2, <2>4, <3>3
      <4>2. l[top][k + 1] # e
        BY <2>2, <2>7, <4>1
      <4>. QED
        BY <1>2, <2>18, <3>1, <4>1, <4>2 DEF IsList
    <3>4. ASSUME NEW i \in Nat, NEW j \in Nat, i < j, j < m[top]
          PROVE  data'[g[top][i]] < data'[g[top][j]]
      <4>1. i + 1 \in Nat /\ j + 1 \in Nat /\ i + 1 < j + 1 /\ j + 1 < n[top]
        BY <2>2, <2>4, <3>4
      <4>2. data[l[top][i + 1]] < data[l[top][j + 1]]
        BY <3>1, <4>1 DEF IsList
      <4>. QED
        BY <1>2, <2>4, <4>2
    <3>5. heads'[top] = g[top][0]
      <4>1. g[top][0] = l[top][0 + 1] /\ 0 + 1 = 1
        BY <2>4
      <4>. QED
        BY <2>5, <4>1
    <3>. QED
      BY <3>2, <3>3, <3>4, <3>5 DEF IsList
  <2>10. Apart(m, g)
    <3>. SUFFICES ASSUME NEW q \in Queue!Priorities, NEW r \in Queue!Priorities, NEW i \in Nat, NEW j \in Nat,
                         i < m[q], j < m[r], g[q][i] = g[r][j]
                  PROVE  q = r /\ i = j
      BY DEF Apart
    <3>1. /\ (q = top /\ i + 1 < n[q] /\ g[q][i] = l[q][i + 1]) \/ (q # top /\ i < n[q] /\ g[q][i] = l[q][i])
          /\ (r = top /\ j + 1 < n[r] /\ g[r][j] = l[r][j + 1]) \/ (r # top /\ j < n[r] /\ g[r][j] = l[r][j])
      BY <2>2, <2>4
    <3>2. i + 1 \in Nat /\ j + 1 \in Nat
      OBVIOUS
    <3>. QED
      BY <3>1, <3>2 DEF Lists, Apart
  <2>11. Lists(m, g)'
    <3>1. \A q \in Queue!Priorities : IsList(m, g, q)'
      BY <2>8, <2>9
    <3>. QED
      BY <2>4, <2>10, <3>1 DEF Lists, Apart, Queue!Priorities
  <2>12. PriorityInv'
    BY <2>6, <2>11 DEF PriorityInv
  <2>. DEFINE earliest == [order |-> data[e], priority |-> top]
  <2>13. \A r : r \in Queue!Waiting' <=>
          \E q \in Queue!Priorities : \E k \in Nat :
             k < m[q] /\ r = [order |-> data[g[q][k]], priority |-> q]
    <3>1. PriorityTypes' => WaitingKnown'
      BY WaitingOfLists, PTL
    <3>2. WaitingIs(m, g)'
      BY <2>6, <2>11, <3>1 DEF WaitingKnown
    <3>. QED
      BY <1>2, <3>2 DEF WaitingIs, Queue!Priorities
  \* Nothing else has the priority and the order of the first one.
  <2>14. ASSUME NEW q \in Queue!Priorities, NEW k \in Nat, k < n[q], q # top \/ k # 0
         PROVE  /\ [order |-> data[l[q][k]], priority |-> q] \in Queue!Waiting'
                /\ [order |-> data[l[q][k]], priority |-> q] # earliest
    <3>1. \/ q # top /\ k < m[q] /\ l[q][k] = g[q][k]
          \/ q = top /\ k - 1 \in Nat /\ k - 1 < m[q] /\ l[q][k] = g[q][k - 1]
      BY <2>2, <2>4, <2>14
    <3>2. q = top => data[e] < data[l[q][k]]
      BY <1>1, <2>2, <2>14 DEF Lists, IsList
    <3>3. q = top => data[l[q][k]] # data[e]
      BY <2>3, <3>2
    <3>. QED
      BY <2>13, <2>14, <3>1, <3>3
  <2>15. Queue!Waiting' = Queue!Waiting \ {earliest}
    <3>1. ASSUME NEW r \in Queue!Waiting, r # earliest PROVE r \in Queue!Waiting'
      <4>1. PICK q \in Queue!Priorities, k \in Nat :
              k < n[q] /\ r = [order |-> data[l[q][k]], priority |-> q]
        BY <1>3
      <4>2. q # top \/ k # 0
        BY <2>2, <3>1, <4>1
      <4>. QED
        BY <2>14, <4>1, <4>2
    <3>2. ASSUME NEW r \in Queue!Waiting' PROVE r \in Queue!Waiting /\ r # earliest
      <4>1. PICK q \in Queue!Priorities, k \in Nat :
              k < m[q] /\ r = [order |-> data[g[q][k]], priority |-> q]
        BY <2>13
      <4>2. \E j \in Nat : j < n[q] /\ (q # top \/ j # 0) /\ g[q][k] = l[q][j]
        <5>1. CASE q = top
          <6>1. k + 1 \in Nat /\ k + 1 # 0 /\ k + 1 < n[q] /\ g[q][k] = l[q][k + 1]
            BY <2>2, <2>4, <4>1, <5>1
          <6>. QED
            BY <6>1
        <5>2. CASE q # top
          BY <2>4, <4>1, <5>2
        <5>. QED
          BY <5>1, <5>2
      <4>3. PICK j \in Nat : j < n[q] /\ (q # top \/ j # 0) /\ g[q][k] = l[q][j]
        BY <4>2
      <4>. QED
        BY <1>3, <2>14, <4>1, <4>3
    <3>. QED
      BY <3>1, <3>2, <2>14
  <2>16. earliest \in fit /\ \A s \in fit \ {earliest} : Queue!Service!Before(earliest, s)
    <3>1. earliest \in Queue!Waiting /\ earliest.priority = top
      <4>1. 0 \in Nat /\ 0 < n[top] /\ earliest = [order |-> data[l[top][0]], priority |-> top]
        BY <2>2
      <4>. QED
        BY <1>3, <2>2, <4>1
    <3>2. ASSUME NEW s \in Queue!Waiting, s.priority \in low .. high, s # earliest
          PROVE  earliest.priority > s.priority \/ (earliest.priority = s.priority /\ earliest.order < s.order)
      <4>1. PICK q \in Queue!Priorities, k \in Nat :
              k < n[q] /\ s = [order |-> data[l[q][k]], priority |-> q]
        BY <1>3
      <4>2. q \in full /\ q <= top /\ s.priority = q /\ s.order = data[l[q][k]]
        BY <1>4, <2>1, <3>2, <4>1
      <4>3. CASE q # top
        BY <1>1, <2>2, <4>2, <4>3
      <4>4. CASE q = top
        <5>1. k # 0
          BY <2>2, <3>2, <4>1, <4>4
        <5>2. data[e] < data[l[q][k]]
          BY <1>1, <2>2, <4>1, <4>4, <5>1 DEF Lists, IsList
        <5>. QED
          BY <4>2, <4>4, <5>2
      <4>. QED
        BY <4>3, <4>4
    <3>. HIDE DEF earliest
    <3>3. \A s \in fit \ {earliest} : Queue!Service!Before(earliest, s)
      BY <3>2 DEF Queue!Service!Before
    <3>. QED
      BY <2>2, <3>1, <3>3
  <2>17. taken' = <<earliest>> /\ UNCHANGED arrived
    BY <1>2, <2>18, <2>3
  <2>. HIDE DEF earliest
  <2>. QED
    BY <2>12, <2>15, <2>16, <2>17 DEF Queue!Service!Take
<1>. HIDE DEF full, best, node, fit
<1>. QED
  BY <1>2, <1>5, <1>6

\* Every operation of main's menu is one of the service, and keeps the lists in order.
LEMMA PriorityNext ==
  ASSUME PriorityInv, [Next]_vars
  PROVE  /\ PriorityInv'
         /\ Queue!Service!Next \/ UNCHANGED <<Queue!Waiting, arrived, taken>>
<1>1. CASE Queue!Next
  <2>1. QueuePriorities \in Nat \ {0} /\ Queue!Priorities = 0 .. QueuePriorities - 1
    BY ConcurrentAssumption DEF ConcurrentAssumption, Queue!Priorities
  <2>2. ASSUME NEW p \in Queue!Priorities, Queue!enqueue(p)
        PROVE  PriorityInv' /\ Queue!Service!Next
    BY <2>2, EnqueuePuts DEF Queue!Service!Next
  <2>3. ASSUME NEW low \in Queue!Priorities, NEW high \in Queue!Priorities, Queue!Dequeue(low, high)
        PROVE  PriorityInv' /\ Queue!Service!Next
    <3>1. PriorityInv' /\ Queue!Service!Take(low, high)
      BY <2>3, DequeueTakes
    <3>. QED
      BY <2>1, <3>1 DEF Queue!Service!Next
  <2>4. 0 \in Queue!Priorities /\ QueuePriorities - 1 \in Queue!Priorities
    BY <2>1
  <2>. QED
    BY <1>1, <2>2, <2>3, <2>4
       DEF Queue!Next, Queue!dequeueHighest, Queue!dequeueByPriority, Queue!dequeueAtLeast
<1>2. CASE UNCHANGED pqVars
  <2>1. UNCHANGED <<heads, next, data, priority, used, arrived, taken>>
    BY <1>2 DEF pqVars
  <2>2. PriorityInv'
    BY <2>1, QuietLists
  <2>3. UNCHANGED Queue!Waiting
    BY <2>1 DEF Queue!Waiting, Queue!Chain, Queue!Priorities
  <2>. QED
    BY <2>1, <2>2, <2>3
<1>. QED
  BY <1>1, <1>2 DEF Next, vars

\* Whatever places malloc hands out, and whatever they held, the linked lists of
\* module2/4.2/priority_queue.c implement PriorityService: each operation puts one
\* request or takes the highest and earliest of the range, and nothing is lost.
THEOREM ListsServeInOrder == Spec => ServesInOrder
<1>1. Init => PriorityInv /\ Queue!Service!Init
  BY PriorityInit DEF Init
<1>2. PriorityInv /\ [Next]_vars
        => /\ PriorityInv'
           /\ [Queue!Service!Next]_<<Queue!Waiting, arrived, taken>>
  BY PriorityNext
<1>. QED
  BY <1>1, <1>2, PTL DEF Spec, ServesInOrder, Queue!ServesInOrder, Queue!Service!Spec

-----------------------------------------------------------------------------
(* The echo server *)

Datagrams == [from : EchoAddresses, text : Nat]
Answers   == [to : EchoAddresses, text : Nat, number : Nat]
Listed    == [addr : EchoAddresses, counter : Nat]
Users     == [state : {"up", "told", "gone"}, addr : EchoAddresses, sent : Nat]

EchoType ==
    /\ client \in [EchoProcesses -> Users]
    /\ clients \in Seq(Listed)
    /\ toServer \in Seq(Datagrams) /\ replies \in Seq(Answers)
    /\ sends \in Nat /\ faults \in Nat
    /\ shared \subseteq EchoAddresses
    /\ uePrinted \subseteq EchoProcesses \X Answers

\* The list l has an address once.
Once(l) == \A i, j \in 1 .. Len(l) : l[i].addr = l[j].addr => i = j

\* The counters of l and the lines of q that can still raise them are at most n.
LinesOf(q) == {i \in 1 .. Len(q) : q[i].text # Echo!CLOSE}
Bounded(l, q, n) ==
    /\ Cardinality(LinesOf(q)) <= n
    /\ \A i \in 1 .. Len(l) : l[i].counter + Cardinality(LinesOf(q)) <= n

\* What the list l counts for a, 0 for an address not listed.
KnownIn(l, a) == {k \in DOMAIN l : l[k].addr = a}
FirstIn(l, a) == CHOOSE k \in KnownIn(l, a) : \A j \in KnownIn(l, a) : k <= j
Count(l, a)   == IF KnownIn(l, a) = {} THEN 0 ELSE l[FirstIn(l, a)].counter

\* n is where a's numbering stands before the i-th datagram of q: its latest text, or
\* the counter m when none of its datagrams is ahead.
Stands(q, m, a, i, n) ==
    \/ n = m /\ \A j \in 1 .. i - 1 : q[j].from # a
    \/ \E j \in 1 .. i - 1 : /\ q[j].from = a /\ q[j].text = n
                             /\ \A k \in j + 1 .. i - 1 : q[k].from # a
Final(q, m, a, n) == Stands(q, m, a, Len(q) + 1, n)

\* The datagrams of a number its lines without a gap.
Numbered(q, m, a) ==
    \A i \in 1 .. Len(q), n \in Nat :
        q[i].from = a /\ Stands(q, m, a, i, n) => q[i].text \in {Echo!CLOSE, n + 1}

\* A client on a has sent n lines since it started or said CLOSE; n is 0 without one.
On(cl, c, a) == cl[c].state # "gone" /\ cl[c].addr = a
Reached(cl, a, n) == /\ \A c \in EchoProcesses : On(cl, c, a) => cl[c].sent = n
                     /\ (\A c \in EchoProcesses : ~On(cl, c, a)) => n = 0
Alone(cl, a) == \A c, d \in EchoProcesses : On(cl, c, a) /\ On(cl, d, a) => c = d

\* What is under way to a server that counts m continues its numbering up to what the
\* client has sent.
Sent(cl, m, q, a) == Numbered(q, m, a) /\ \A n \in Nat : Final(q, m, a, n) => Reached(cl, a, n)

\* What was answered has the right number.
Answered(rp, pr, a) ==
    /\ \A i \in 1 .. Len(rp) : rp[i].to = a => rp[i].number = rp[i].text
    /\ \A p \in pr : p[2].to = a => p[2].number = p[2].text

Order(a) == /\ Alone(client, a)
            /\ Sent(client, Count(clients, a), toServer, a)
            /\ Answered(replies, uePrinted, a)

ListedOnce  == Once(clients)
BoundInv == Bounded(clients, toServer, sends + faults)
OrderInv == faults = 0 => \A a \in EchoAddresses \ shared : Order(a)

EchoInv == EchoType /\ ListedOnce /\ BoundInv /\ OrderInv

-----------------------------------------------------------------------------
(* Facts about UdpEcho: sequences of datagrams *)

LEMMA PutLast ==
  ASSUME NEW S, NEW s \in Seq(S), NEW e \in S
  PROVE  /\ Append(s, e) \in Seq(S) /\ Len(s) \in Nat /\ Len(Append(s, e)) = Len(s) + 1
         /\ \A k \in 1 .. Len(s) : Append(s, e)[k] = s[k]
         /\ Append(s, e)[Len(s) + 1] = e
BY AppendProperties, LenProperties

LEMMA SetOne ==
  ASSUME NEW S, NEW s \in Seq(S), NEW k, NEW e \in S
  PROVE  /\ [s EXCEPT ![k] = e] \in Seq(S) /\ Len([s EXCEPT ![k] = e]) = Len(s)
         /\ \A i \in 1 .. Len(s) : [s EXCEPT ![k] = e][i] = IF i = k THEN e ELSE s[i]
<1>1. DOMAIN s = 1 .. Len(s)
  BY LenProperties
<1>2. CASE k \in 1 .. Len(s)
  BY <1>2, ExceptSeq
<1>3. CASE k \notin 1 .. Len(s)
  <2>1. [s EXCEPT ![k] = e] = s
    BY <1>1, <1>3
  <2>. QED
    BY <1>3, <2>1
<1>. QED
  BY <1>2, <1>3

LEMMA TakeOut ==
  ASSUME NEW S, NEW s \in Seq(S), NEW k \in 1 .. Len(s), NEW r, r = Echo!RemoveAt(s, k)
  PROVE  /\ r \in Seq(S) /\ Len(s) \in Nat /\ Len(r) = Len(s) - 1
         /\ \A i \in 1 .. Len(r) : Old(i, k) \in 1 .. Len(s) \ {k} /\ r[i] = s[Old(i, k)]
<1>1. r = Server!RemoveAt(s, k)
  BY DEF Echo!RemoveAt, Server!RemoveAt
<1>2. /\ r \in Seq(S) /\ Len(s) \in Nat /\ Len(r) = Len(s) - 1
      /\ \A i \in 1 .. Len(r) : Old(i, k) \in 1 .. Len(s) /\ Old(i, k) # k /\ r[i] = s[Old(i, k)]
  <2>. HIDE DEF Old
  <2>. QED
    BY <1>1, Taken
<1>. QED
  BY <1>2

LEMMA LinesType ==
  ASSUME NEW q \in Seq(Datagrams)
  PROVE  IsFiniteSet(LinesOf(q)) /\ Cardinality(LinesOf(q)) \in Nat
<1>1. Len(q) \in Nat
  BY LenProperties
<1>2. LinesOf(q) \subseteq 1 .. Len(q) /\ IsFiniteSet(1 .. Len(q))
  BY <1>1, FS_Interval DEF LinesOf
<1>. QED
  BY <1>2, FS_Subset, FS_CardinalityType

\* One datagram less is one line less, or none.
LEMMA LinesLess ==
  ASSUME NEW q \in Seq(Datagrams), NEW r \in Seq(Datagrams), NEW k \in 1 .. Len(q),
         Len(r) = Len(q) - 1,
         \A i \in 1 .. Len(r) : Old(i, k) \in 1 .. Len(q) \ {k} /\ r[i] = q[Old(i, k)]
  PROVE  /\ Cardinality(LinesOf(r)) <= Cardinality(LinesOf(q))
         /\ q[k].text # Echo!CLOSE => Cardinality(LinesOf(r)) + 1 <= Cardinality(LinesOf(q))
<1>. DEFINE T == LinesOf(q) \ {k}
            f == [i \in LinesOf(r) |-> Old(i, k)]
<1>1. /\ IsFiniteSet(LinesOf(q)) /\ Cardinality(LinesOf(q)) \in Nat
      /\ Cardinality(LinesOf(r)) \in Nat
      /\ Len(q) \in Nat /\ Len(r) \in Nat
  BY LinesType, LenProperties
<1>2. /\ IsFiniteSet(T)
      /\ Cardinality(T) = IF k \in LinesOf(q) THEN Cardinality(LinesOf(q)) - 1
                        ELSE Cardinality(LinesOf(q))
  BY <1>1, FS_RemoveElement
<1>3. f \in Injection(LinesOf(r), T)
  <2>1. f \in [LinesOf(r) -> T]
    BY DEF LinesOf
  <2>2. \A i, j \in LinesOf(r) : f[i] = f[j] => i = j
    BY <1>1 DEF LinesOf, Old
  <2>. QED
    BY <2>1, <2>2, Fun_IsInj
<1>4. Cardinality(LinesOf(r)) <= Cardinality(T)
  BY <1>2, <1>3, FS_Injection
<1>5. q[k].text # Echo!CLOSE => k \in LinesOf(q)
  BY <1>1 DEF LinesOf
<1>. HIDE DEF T, f
<1>. QED
  BY <1>1, <1>2, <1>4, <1>5

\* Datagrams at the end of which only the first can be a line.
LEMMA LinesMore ==
  ASSUME NEW q \in Seq(Datagrams), NEW r \in Seq(Datagrams), Len(r) >= Len(q),
         \A i \in 1 .. Len(q) : r[i] = q[i],
         \A i \in Len(q) + 2 .. Len(r) : r[i].text = Echo!CLOSE
  PROVE  /\ Cardinality(LinesOf(r)) <= Cardinality(LinesOf(q)) + 1
         /\ (Len(r) > Len(q) => r[Len(q) + 1].text = Echo!CLOSE) =>
               Cardinality(LinesOf(r)) <= Cardinality(LinesOf(q))
<1>1. /\ IsFiniteSet(LinesOf(q)) /\ Cardinality(LinesOf(q)) \in Nat
      /\ Cardinality(LinesOf(r)) \in Nat
      /\ Len(q) \in Nat /\ Len(r) \in Nat
  BY LinesType, LenProperties
<1>2. LinesOf(r) \subseteq LinesOf(q) \union {Len(q) + 1}
  BY <1>1 DEF LinesOf
<1>3. /\ IsFiniteSet(LinesOf(q) \union {Len(q) + 1})
      /\ Cardinality(LinesOf(q) \union {Len(q) + 1}) <= Cardinality(LinesOf(q)) + 1
  <2>. DEFINE T == LinesOf(q)
              x == Len(q) + 1
  <2>1. IsFiniteSet(T) /\ Cardinality(T) \in Nat
    BY <1>1
  <2>. HIDE DEF T, x
  <2>2. /\ IsFiniteSet(T \union {x})
        /\ Cardinality(T \union {x}) = IF x \in T THEN Cardinality(T) ELSE Cardinality(T) + 1
    BY <2>1, FS_AddElement
  <2>3. IsFiniteSet(T \union {x}) /\ Cardinality(T \union {x}) <= Cardinality(T) + 1
    BY <2>1, <2>2
  <2>. QED
    BY <2>3 DEF T, x
<1>4. Cardinality(LinesOf(r)) <= Cardinality(LinesOf(q) \union {Len(q) + 1})
  BY <1>2, <1>3, FS_Subset
<1>5. (Len(r) > Len(q) => r[Len(q) + 1].text = Echo!CLOSE) => LinesOf(r) \subseteq LinesOf(q)
  BY <1>1, <1>2 DEF LinesOf
<1>6. Cardinality(LinesOf(q) \union {Len(q) + 1}) \in Nat
  BY <1>3, FS_CardinalityType
<1>. QED
  BY <1>1, <1>3, <1>4, <1>5, <1>6, FS_Subset


\* Where the numbering stands depends on the datagrams ahead.
LEMMA StandsSame ==
  ASSUME NEW q, NEW r, NEW m, NEW a, NEW i \in Nat, NEW n, \A j \in 1 .. i - 1 : r[j] = q[j],
         Stands(r, m, a, i, n)
  PROVE  Stands(q, m, a, i, n)
<1>1. CASE n = m /\ \A j \in 1 .. i - 1 : r[j].from # a
  BY <1>1 DEF Stands
<1>2. ASSUME NEW j \in 1 .. i - 1, r[j].from = a, r[j].text = n,
             \A k \in j + 1 .. i - 1 : r[k].from # a
      PROVE  Stands(q, m, a, i, n)
  <2>1. \A k \in j + 1 .. i - 1 : k \in 1 .. i - 1
    OBVIOUS
  <2>. QED
    BY <1>2, <2>1 DEF Stands
<1>. QED
  BY <1>1, <1>2 DEF Stands

\* Datagrams from others at the end leave a's numbering alone.
LEMMA PushOther ==
  ASSUME NEW q \in Seq(Datagrams), NEW r \in Seq(Datagrams), NEW m, NEW a, Len(r) >= Len(q),
         \A i \in 1 .. Len(q) : r[i] = q[i],
         \A i \in Len(q) + 1 .. Len(r) : r[i].from # a
  PROVE  /\ Numbered(q, m, a) => Numbered(r, m, a)
         /\ \A n \in Nat : Final(r, m, a, n) => Final(q, m, a, n)
<1>1. Len(q) \in Nat /\ Len(r) \in Nat
  BY LenProperties
<1>2. \A i \in 1 .. Len(q), n \in Nat : Stands(r, m, a, i, n) => Stands(q, m, a, i, n)
  BY <1>1, StandsSame
<1>3. Numbered(q, m, a) => Numbered(r, m, a)
  BY <1>1, <1>2 DEF Numbered
<1>4. ASSUME NEW n \in Nat, Final(r, m, a, n)
      PROVE  Final(q, m, a, n)
  <2>1. CASE n = m /\ \A j \in 1 .. Len(r) : r[j].from # a
    BY <1>1, <2>1 DEF Final, Stands
  <2>2. ASSUME NEW j \in 1 .. Len(r), r[j].from = a, r[j].text = n,
               \A k \in j + 1 .. Len(r) : r[k].from # a
        PROVE  Final(q, m, a, n)
    <3>1. j \in 1 .. Len(q) /\ q[j].from = a /\ q[j].text = n
      BY <1>1, <2>2
    <3>2. \A k \in j + 1 .. Len(q) : q[k].from # a
      BY <1>1, <2>2
    <3>. QED
      BY <1>1, <3>1, <3>2 DEF Final, Stands
  <2>. QED
    BY <1>1, <1>4, <2>1, <2>2 DEF Final, Stands
<1>. QED
  BY <1>3, <1>4

\* A datagram of a's at the end continues its numbering.
LEMMA PushOwn ==
  ASSUME NEW q \in Seq(Datagrams), NEW r \in Seq(Datagrams), NEW m, NEW a,
         Len(r) = Len(q) + 1, \A i \in 1 .. Len(q) : r[i] = q[i],
         r[Len(q) + 1].from = a,
         Numbered(q, m, a),
         \A n \in Nat : Final(q, m, a, n) => r[Len(q) + 1].text \in {Echo!CLOSE, n + 1}
  PROVE  Numbered(r, m, a) /\ \A n \in Nat : Final(r, m, a, n) => n = r[Len(q) + 1].text
<1>1. Len(q) \in Nat /\ Len(r) \in Nat
  BY LenProperties
<1>2. \A i \in 1 .. Len(q) + 1, n \in Nat : Stands(r, m, a, i, n) => Stands(q, m, a, i, n)
  BY <1>1, StandsSame
<1>3. ASSUME NEW i \in 1 .. Len(r), NEW n \in Nat, r[i].from = a, Stands(r, m, a, i, n)
      PROVE  r[i].text \in {Echo!CLOSE, n + 1}
  <2>1. CASE i \in 1 .. Len(q)
    BY <1>1, <1>2, <1>3, <2>1 DEF Numbered
  <2>2. CASE i = Len(q) + 1
    BY <1>1, <1>2, <1>3, <2>2 DEF Final
  <2>. QED
    BY <1>1, <2>1, <2>2
<1>4. ASSUME NEW n \in Nat, Final(r, m, a, n)
      PROVE  n = r[Len(q) + 1].text
  <2>1. Len(q) + 1 \in 1 .. Len(r)
    BY <1>1
  <2>2. \A j \in 1 .. Len(r) : j # Len(q) + 1 => Len(q) + 1 \in j + 1 .. Len(r)
    BY <1>1
  <2>. QED
    BY <1>1, <1>4, <2>1, <2>2 DEF Final, Stands
<1>. QED
  BY <1>3, <1>4 DEF Numbered

\* The first datagram is taken: if it is a's, it is the next one, and what it says is
\* where the numbering stands then.
LEMMA TakeFirst ==
  ASSUME NEW q \in Seq(Datagrams), NEW r \in Seq(Datagrams), NEW m \in Nat, NEW a,
         Len(q) >= 1, Len(r) = Len(q) - 1, \A i \in 1 .. Len(r) : r[i] = q[i + 1],
         Numbered(q, m, a),
         NEW l \in Nat, l = IF q[1].from = a THEN q[1].text ELSE m
  PROVE  /\ q[1].from = a => q[1].text \in {Echo!CLOSE, m + 1}
         /\ Numbered(r, l, a) /\ \A n \in Nat : Final(r, l, a, n) => Final(q, m, a, n)
<1>1. Len(q) \in Nat /\ Len(r) \in Nat
  BY LenProperties
<1>2. q[1].from = a => q[1].text \in {Echo!CLOSE, m + 1}
  <2>1. 1 \in 1 .. Len(q) /\ Stands(q, m, a, 1, m)
    BY <1>1 DEF Stands
  <2>. QED
    BY <2>1 DEF Numbered
<1>3. ASSUME NEW i \in 1 .. Len(q), NEW n \in Nat, Stands(r, l, a, i, n)
      PROVE  Stands(q, m, a, i + 1, n)
  <2>1. CASE n = l /\ \A j \in 1 .. i - 1 : r[j].from # a
    <3>1. \A j \in 2 .. i : q[j].from # a
      <4>1. \A j \in 2 .. i : j - 1 \in 1 .. Len(r) /\ j - 1 \in 1 .. i - 1 /\ (j - 1) + 1 = j
        BY <1>1
      <4>2. \A j \in 2 .. i : r[j - 1].from # a
        BY <2>1, <4>1
      <4>3. \A j \in 2 .. i : r[j - 1] = q[(j - 1) + 1]
        BY <4>1
      <4>. QED
        BY <4>1, <4>2, <4>3
    <3>2. CASE q[1].from = a
      BY <1>1, <2>1, <3>1, <3>2 DEF Stands
    <3>3. CASE q[1].from # a
      BY <1>1, <2>1, <3>1, <3>3 DEF Stands
    <3>. QED
      BY <3>2, <3>3
  <2>2. ASSUME NEW j \in 1 .. i - 1, r[j].from = a, r[j].text = n,
               \A k \in j + 1 .. i - 1 : r[k].from # a
        PROVE  Stands(q, m, a, i + 1, n)
    <3>1. j + 1 \in 1 .. i /\ q[j + 1].from = a /\ q[j + 1].text = n
      <4>1. j \in 1 .. Len(r) /\ j + 1 \in 1 .. i
        BY <1>1
      <4>. QED
        BY <2>2, <4>1
    <3>2. \A k \in j + 2 .. i : q[k].from # a
      <4>1. \A k \in j + 2 .. i : /\ k - 1 \in 1 .. Len(r) /\ k - 1 \in j + 1 .. i - 1
                                  /\ (k - 1) + 1 = k
        BY <1>1
      <4>2. \A k \in j + 2 .. i : r[k - 1].from # a
        BY <2>2, <4>1
      <4>3. \A k \in j + 2 .. i : r[k - 1] = q[(k - 1) + 1]
        BY <4>1
      <4>. QED
        BY <4>1, <4>2, <4>3
    <3>3. (i + 1) - 1 = i /\ (j + 1) + 1 = j + 2
      OBVIOUS
    <3>. QED
      BY <3>1, <3>2, <3>3 DEF Stands
  <2>. QED
    BY <1>3, <2>1, <2>2 DEF Stands
<1>4. Numbered(r, l, a)
  <2>1. ASSUME NEW i \in 1 .. Len(r), NEW n \in Nat, r[i].from = a, Stands(r, l, a, i, n)
        PROVE  r[i].text \in {Echo!CLOSE, n + 1}
    <3>1. i \in 1 .. Len(q) /\ i + 1 \in 1 .. Len(q) /\ r[i] = q[i + 1]
      BY <1>1
    <3>2. Stands(q, m, a, i + 1, n)
      BY <1>3, <2>1, <3>1
    <3>. QED
      BY <2>1, <3>1, <3>2 DEF Numbered
  <2>. QED
    BY <2>1 DEF Numbered
<1>5. ASSUME NEW n \in Nat, Final(r, l, a, n)
      PROVE  Final(q, m, a, n)
  <2>1. Len(r) + 1 = Len(q) /\ Len(q) \in 1 .. Len(q)
    BY <1>1
  <2>. QED
    BY <1>3, <1>5, <2>1 DEF Final
<1>. QED
  BY <1>2, <1>4, <1>5

\* The count of a listed address is the counter of its entry.
LEMMA CountIs ==
  ASSUME NEW l \in Seq(Listed), Once(l), NEW a
  PROVE  /\ KnownIn(l, a) # {} =>
               /\ FirstIn(l, a) \in 1 .. Len(l) /\ l[FirstIn(l, a)].addr = a
               /\ Count(l, a) = l[FirstIn(l, a)].counter
         /\ \A k \in 1 .. Len(l) : l[k].addr = a => KnownIn(l, a) # {} /\ Count(l, a) = l[k].counter
         /\ KnownIn(l, a) = {} => Count(l, a) = 0
         /\ Count(l, a) \in Nat
<1>1. DOMAIN l = 1 .. Len(l) /\ Len(l) \in Nat /\ \A i \in 1 .. Len(l) : l[i] \in Listed
  BY LenProperties, ElementOfSeq
<1>2. ASSUME KnownIn(l, a) # {}
      PROVE  FirstIn(l, a) \in 1 .. Len(l) /\ l[FirstIn(l, a)].addr = a
  <2>1. PICK k \in KnownIn(l, a) : TRUE
    BY <1>2
  <2>2. \A j \in KnownIn(l, a) : k <= j
    BY <1>1, <2>1 DEF KnownIn, Once
  <2>3. FirstIn(l, a) \in KnownIn(l, a)
    BY <2>1, <2>2 DEF FirstIn
  <2>. QED
    BY <1>1, <2>3 DEF KnownIn
<1>3. ASSUME NEW k \in 1 .. Len(l), l[k].addr = a
      PROVE  KnownIn(l, a) # {} /\ Count(l, a) = l[k].counter
  <2>1. KnownIn(l, a) # {}
    BY <1>1, <1>3 DEF KnownIn
  <2>2. FirstIn(l, a) = k
    BY <1>2, <1>3, <2>1 DEF Once
  <2>. QED
    BY <2>1, <2>2 DEF Count
<1>. QED
  BY <1>1, <1>2, <1>3 DEF Count, Listed

\* The lists the server makes for the sender of a datagram.
Enlisted(l, a)      == <<[addr |-> a, counter |-> 1]>> \o l
Counted(l, a, n) == [l EXCEPT ![FirstIn(l, a)].counter = n]
Removed(l, a)    == Echo!RemoveAt(l, FirstIn(l, a))
Served(l, d) ==
    IF d.text = Echo!CLOSE
    THEN IF KnownIn(l, d.from) = {} THEN l ELSE Removed(l, d.from)
    ELSE IF KnownIn(l, d.from) = {} THEN Enlisted(l, d.from)
         ELSE Counted(l, d.from, Count(l, d.from) + 1)

LEMMA CountAt ==
  ASSUME NEW l \in Seq(Listed), Once(l), NEW a, NEW k \in 1 .. Len(l), l[k].addr = a
  PROVE  Count(l, a) = l[k].counter
BY CountIs

\* Lists with the same entries for a address count the same for it.
LEMMA CountSame ==
  ASSUME NEW l \in Seq(Listed), NEW l2 \in Seq(Listed), Once(l), Once(l2), NEW b,
         \A i \in 1 .. Len(l2) : l2[i].addr = b => \E j \in 1 .. Len(l) : l2[i] = l[j],
         \A j \in 1 .. Len(l) : l[j].addr = b => \E i \in 1 .. Len(l2) : l2[i] = l[j]
  PROVE  Count(l2, b) = Count(l, b)
<1>1. CASE KnownIn(l, b) = {}
  <2>1. KnownIn(l2, b) = {}
    <3>1. SUFFICES ASSUME KnownIn(l2, b) # {} PROVE FALSE
      OBVIOUS
    <3>2. PICK i \in 1 .. Len(l2) : l2[i].addr = b
      BY <3>1, CountIs
    <3>3. PICK j \in 1 .. Len(l) : l[j].addr = b
      BY <3>2
    <3>. QED
      BY <1>1, <3>3, CountIs
  <2>. QED
    BY <1>1, <2>1, CountIs
<1>2. CASE KnownIn(l, b) # {}
  <2>1. PICK j \in 1 .. Len(l) : l[j].addr = b /\ Count(l, b) = l[j].counter
    BY <1>2, CountIs
  <2>2. PICK i \in 1 .. Len(l2) : l2[i] = l[j]
    BY <2>1
  <2>. QED
    BY <2>1, <2>2, CountIs
<1>. QED
  BY <1>1, <1>2

\* A new address comes first and counts one.
LEMMA AddOne ==
  ASSUME NEW l \in Seq(Listed), Once(l), NEW a \in EchoAddresses, KnownIn(l, a) = {},
         NEW l2, l2 = Enlisted(l, a)
  PROVE  /\ l2 \in Seq(Listed) /\ Once(l2) /\ Count(l2, a) = 1
         /\ \A b : b # a => Count(l2, b) = Count(l, b)
         /\ \A i \in 1 .. Len(l2) : l2[i].counter = 1 \/ \E j \in 1 .. Len(l) : l2[i] = l[j]
<1>. DEFINE e == [addr |-> a, counter |-> 1]
<1>1. e \in Listed /\ e.addr = a /\ e.counter = 1
  BY DEF Listed
<1>2. l2 = <<e>> \o l
  BY DEF Enlisted
<1>. HIDE DEF e
<1>3. DOMAIN l = 1 .. Len(l) /\ Len(l) \in Nat
  BY LenProperties
<1>4. <<e>> \in Seq(Listed) /\ Len(<<e>>) = 1 /\ <<e>>[1] = e
  BY <1>1
<1>5. /\ l2 \in Seq(Listed) /\ Len(l2) = Len(l) + 1
      /\ \A i \in 1 .. Len(l) + 1 : l2[i] = IF i <= 1 THEN <<e>>[i] ELSE l[i - 1]
  <2>1. /\ <<e>> \o l \in Seq(Listed) /\ Len(<<e>> \o l) = Len(<<e>>) + Len(l)
        /\ \A i \in 1 .. Len(<<e>>) + Len(l) :
              (<<e>> \o l)[i] = IF i <= Len(<<e>>) THEN <<e>>[i] ELSE l[i - Len(<<e>>)]
    BY <1>4, ConcatProperties
  <2>. QED
    BY <1>2, <1>3, <1>4, <2>1
<1>6. l2[1] = e /\ \A i \in 2 .. Len(l2) : i - 1 \in 1 .. Len(l) /\ l2[i] = l[i - 1]
  BY <1>3, <1>4, <1>5
<1>7. \A i \in 1 .. Len(l) : l[i].addr # a
  BY <1>3 DEF KnownIn
<1>8. Once(l2)
  <2>1. SUFFICES ASSUME NEW i \in 1 .. Len(l2), NEW j \in 1 .. Len(l2), l2[i].addr = l2[j].addr
                 PROVE  i = j
    BY DEF Once
  <2>2. CASE i = 1 \/ j = 1
    BY <1>1, <1>3, <1>5, <1>6, <1>7, <2>1, <2>2
  <2>3. CASE i \in 2 .. Len(l2) /\ j \in 2 .. Len(l2)
    <3>1. i - 1 = j - 1
      BY <1>6, <2>1, <2>3 DEF Once
    <3>. QED
      BY <1>3, <1>5, <3>1
  <2>. QED
    BY <1>3, <1>5, <2>2, <2>3
<1>9. 1 \in 1 .. Len(l2) /\ \A i \in 1 .. Len(l2) : i = 1 \/ i \in 2 .. Len(l2)
  BY <1>3, <1>5
<1>10. Count(l2, a) = 1
  <2>1. l2[1].addr = a /\ l2[1].counter = 1
    BY <1>1, <1>6
  <2>. QED
    BY <1>5, <1>8, <1>9, <2>1, CountAt
<1>11. ASSUME NEW b, b # a
       PROVE  Count(l2, b) = Count(l, b)
  <2>1. \A i \in 1 .. Len(l2) : l2[i].addr = b => \E j \in 1 .. Len(l) : l2[i] = l[j]
    BY <1>1, <1>6, <1>9, <1>11
  <2>2. \A j \in 1 .. Len(l) : j + 1 \in 1 .. Len(l2) /\ l2[j + 1] = l[j]
    <3>1. \A j \in 1 .. Len(l) : j + 1 \in 2 .. Len(l2) /\ (j + 1) - 1 = j /\ j + 1 \in 1 .. Len(l2)
      BY <1>3, <1>5
    <3>. QED
      BY <1>6, <3>1
  <2>. QED
    BY <1>5, <1>8, <2>1, <2>2, CountSame
<1>. QED
  BY <1>1, <1>5, <1>6, <1>8, <1>9, <1>10, <1>11

LEMMA SetEntry ==
  ASSUME NEW l \in Seq(Listed), NEW k, NEW e \in Listed
  PROVE  /\ [l EXCEPT ![k] = e] \in Seq(Listed) /\ Len([l EXCEPT ![k] = e]) = Len(l)
         /\ \A i \in 1 .. Len(l) : [l EXCEPT ![k] = e][i] = IF i = k THEN e ELSE l[i]
BY SetOne

\* A listed address counts one more.
LEMMA CountOne ==
  ASSUME NEW l \in Seq(Listed), Once(l), NEW a, KnownIn(l, a) # {}, NEW n \in Nat,
         NEW l2, l2 = Counted(l, a, n)
  PROVE  /\ l2 \in Seq(Listed) /\ Once(l2) /\ Count(l2, a) = n
         /\ \A b : b # a => Count(l2, b) = Count(l, b)
         /\ \A i \in 1 .. Len(l2) : l2[i].counter = n \/ \E j \in 1 .. Len(l) : l2[i] = l[j]
<1>. DEFINE k == FirstIn(l, a)
            e == [l[k] EXCEPT !.counter = n]
            le == [l EXCEPT ![k] = e]
<1>1. k \in 1 .. Len(l) /\ l[k].addr = a
  BY CountIs
<1>2. l[k] \in Listed
  BY <1>1, ElementOfSeq
<1>3. e \in Listed /\ e.addr = a /\ e.counter = n
  BY <1>1, <1>2 DEF Listed
<1>4. l2 = le
  BY DEF Counted
<1>. HIDE DEF k, e
<1>5. /\ l2 \in Seq(Listed) /\ Len(l2) = Len(l)
      /\ \A i \in 1 .. Len(l) : l2[i] = IF i = k THEN e ELSE l[i]
  <2>1. /\ le \in Seq(Listed) /\ Len(le) = Len(l)
        /\ \A i \in 1 .. Len(l) : le[i] = IF i = k THEN e ELSE l[i]
    BY <1>3, SetEntry
  <2>. QED
    BY <1>4, <2>1
<1>6. \A i \in 1 .. Len(l) : l2[i].addr = l[i].addr
  BY <1>1, <1>3, <1>5
<1>7. Once(l2)
  BY <1>5, <1>6 DEF Once
<1>8. Count(l2, a) = n
  <2>1. k \in 1 .. Len(l2) /\ l2[k].addr = a /\ l2[k].counter = n
    BY <1>1, <1>3, <1>5
  <2>. QED
    BY <1>5, <1>7, <2>1, CountAt
<1>9. ASSUME NEW b, b # a
      PROVE  Count(l2, b) = Count(l, b)
  <2>1. \A i \in 1 .. Len(l2) : l2[i].addr = b => \E j \in 1 .. Len(l) : l2[i] = l[j]
    BY <1>3, <1>5, <1>9
  <2>2. \A j \in 1 .. Len(l) : l[j].addr = b => \E i \in 1 .. Len(l2) : l2[i] = l[j]
    BY <1>1, <1>5, <1>9
  <2>. QED
    BY <1>5, <1>7, <2>1, <2>2, CountSame
<1>. QED
  BY <1>3, <1>5, <1>7, <1>8, <1>9

\* An address taken off the list counts nothing.
LEMMA CountNone ==
  ASSUME NEW l \in Seq(Listed), Once(l), NEW a, KnownIn(l, a) # {},
         NEW l2, l2 = Removed(l, a)
  PROVE  /\ l2 \in Seq(Listed) /\ Once(l2) /\ Count(l2, a) = 0
         /\ \A b : b # a => Count(l2, b) = Count(l, b)
         /\ \A i \in 1 .. Len(l2) : \E j \in 1 .. Len(l) : l2[i] = l[j]
<1>. DEFINE k == FirstIn(l, a)
<1>1. k \in 1 .. Len(l) /\ l[k].addr = a
  BY CountIs
<1>. HIDE DEF k
<1>2. l2 = Echo!RemoveAt(l, k)
  BY DEF k, Removed
<1>3. /\ l2 \in Seq(Listed) /\ Len(l) \in Nat /\ Len(l2) = Len(l) - 1
      /\ \A i \in 1 .. Len(l2) : Old(i, k) \in 1 .. Len(l) \ {k} /\ l2[i] = l[Old(i, k)]
  BY <1>1, <1>2, TakeOut
<1>4. \A i \in 1 .. Len(l2) : l2[i].addr # a
  BY <1>1, <1>3 DEF Once
<1>5. Once(l2)
  <2>1. SUFFICES ASSUME NEW i \in 1 .. Len(l2), NEW j \in 1 .. Len(l2), l2[i].addr = l2[j].addr
                 PROVE  i = j
    BY DEF Once
  <2>2. Old(i, k) = Old(j, k)
    BY <1>3, <2>1 DEF Once
  <2>. QED
    BY <1>1, <1>3, <2>2 DEF Old
<1>6. KnownIn(l2, a) = {}
  BY <1>3, <1>4, <1>5, CountIs
<1>7. ASSUME NEW b, b # a
      PROVE  Count(l2, b) = Count(l, b)
  <2>1. ASSUME NEW j \in 1 .. Len(l), j # k
        PROVE  \E i \in 1 .. Len(l2) : l2[i] = l[j]
    <3>1. CASE j < k
      <4>1. j \in 1 .. Len(l2) /\ Old(j, k) = j
        BY <1>1, <1>3, <3>1 DEF Old
      <4>. QED
        BY <1>3, <4>1
    <3>2. CASE j > k
      <4>1. j - 1 \in 1 .. Len(l2) /\ Old(j - 1, k) = j
        BY <1>1, <1>3, <3>2 DEF Old
      <4>. QED
        BY <1>3, <4>1
    <3>. QED
      BY <1>1, <2>1, <3>1, <3>2
  <2>2. \A i \in 1 .. Len(l2) : l2[i].addr = b => \E j \in 1 .. Len(l) : l2[i] = l[j]
    BY <1>3
  <2>3. \A j \in 1 .. Len(l) : l[j].addr = b => \E i \in 1 .. Len(l2) : l2[i] = l[j]
    BY <1>1, <1>7, <2>1
  <2>. QED
    BY <1>3, <1>5, <2>2, <2>3, CountSame
<1>. QED
  BY <1>3, <1>5, <1>6, <1>7, CountIs

-----------------------------------------------------------------------------
(* The steps of UdpEcho *)

LEMMA EchoSizes ==
  ASSUME EchoType
  PROVE  /\ Len(toServer) \in Nat /\ DOMAIN toServer = 1 .. Len(toServer)
         /\ Len(replies) \in Nat /\ DOMAIN replies = 1 .. Len(replies)
         /\ Len(clients) \in Nat /\ DOMAIN clients = 1 .. Len(clients)
         /\ \A i \in 1 .. Len(clients) : clients[i] \in Listed /\ clients[i].counter \in Nat
         /\ Cardinality(LinesOf(toServer)) \in Nat
         /\ sends \in Nat /\ faults \in Nat
<1>1. \A i \in 1 .. Len(clients) : clients[i] \in Listed
  BY ElementOfSeq DEF EchoType
<1>. QED
  BY <1>1, LinesType, LenProperties DEF EchoType, Listed

\* After a fault only the bound is left to keep.
LEMMA Faulty ==
  ASSUME EchoInv, Echo!Fault, client' \in [EchoProcesses -> Users],
         toServer' \in Seq(Datagrams), replies' \in Seq(Answers),
         Cardinality(LinesOf(toServer')) <= Cardinality(LinesOf(toServer)) + 1
  PROVE  EchoInv'
<1>1. /\ faults' = faults + 1 /\ sends' = sends /\ shared' = shared /\ clients' = clients
      /\ uePrinted' = uePrinted
  BY DEF Echo!Fault
<1>2. EchoType'
  BY <1>1 DEF EchoInv, EchoType
<1>3. /\ Cardinality(LinesOf(toServer)) \in Nat /\ Cardinality(LinesOf(toServer')) \in Nat
      /\ sends \in Nat /\ faults \in Nat
      /\ \A i \in 1 .. Len(clients) : clients[i].counter \in Nat
  BY EchoSizes, LinesType DEF EchoInv
<1>4. Bounded(clients', toServer', sends' + faults')
  BY <1>1, <1>3 DEF EchoInv, BoundInv, Bounded
<1>5. faults' # 0
  BY <1>1, <1>3
<1>. QED
  BY <1>1, <1>2, <1>4, <1>5 DEF EchoInv, ListedOnce, BoundInv, OrderInv

\* Datagrams put at the end of q, or one taken out.
LEMMA PushOne ==
  ASSUME NEW q \in Seq(Datagrams), NEW d \in Datagrams
  PROVE  /\ q \o <<d>> \in Seq(Datagrams) /\ Len(q) \in Nat /\ Len(q \o <<d>>) = Len(q) + 1
         /\ \A i \in 1 .. Len(q) : (q \o <<d>>)[i] = q[i]
         /\ (q \o <<d>>)[Len(q) + 1] = d
         /\ Append(q, d) = q \o <<d>>
<1>1. <<d>> \in Seq(Datagrams) /\ Len(<<d>>) = 1 /\ <<d>>[1] = d /\ Len(q) \in Nat
  BY LenProperties
<1>2. /\ q \o <<d>> \in Seq(Datagrams) /\ Len(q \o <<d>>) = Len(q) + Len(<<d>>)
      /\ \A i \in 1 .. Len(q) + Len(<<d>>) :
            (q \o <<d>>)[i] = IF i <= Len(q) THEN q[i] ELSE <<d>>[i - Len(q)]
  BY <1>1, ConcatProperties
<1>3. Append(q, d) = q \o <<d>>
  BY AppendIsConcat
<1>4. \A i \in 1 .. Len(q) : (q \o <<d>>)[i] = q[i]
  BY <1>1, <1>2
<1>5. (q \o <<d>>)[Len(q) + 1] = d
  <2>1. (q \o <<d>>)[Len(q) + 1] = <<d>>[(Len(q) + 1) - Len(q)]
    BY <1>1, <1>2
  <2>2. (Len(q) + 1) - Len(q) = 1
    BY <1>1
  <2>. QED
    BY <1>1, <2>1, <2>2
<1>. QED
  BY <1>1, <1>2, <1>3, <1>4, <1>5

LEMMA MoreByOne ==
  ASSUME NEW q \in Seq(Datagrams), NEW d \in Datagrams
  PROVE  /\ Cardinality(LinesOf(q \o <<d>>)) <= Cardinality(LinesOf(q)) + 1
         /\ d.text = Echo!CLOSE => Cardinality(LinesOf(q \o <<d>>)) <= Cardinality(LinesOf(q))
<1>. DEFINE r == q \o <<d>>
<1>1. /\ r \in Seq(Datagrams) /\ Len(q) \in Nat /\ Len(r) = Len(q) + 1
      /\ \A i \in 1 .. Len(q) : r[i] = q[i]
      /\ r[Len(q) + 1] = d
  BY PushOne
<1>. HIDE DEF r
<1>2. Len(r) >= Len(q) /\ \A i \in Len(q) + 2 .. Len(r) : r[i].text = Echo!CLOSE
  BY <1>1
<1>3. /\ Cardinality(LinesOf(r)) <= Cardinality(LinesOf(q)) + 1
      /\ d.text = Echo!CLOSE => Cardinality(LinesOf(r)) <= Cardinality(LinesOf(q))
  BY <1>1, <1>2, LinesMore
<1>. QED
  BY <1>3 DEF r

LEMMA LessByOne ==
  ASSUME NEW q \in Seq(Datagrams), NEW k \in 1 .. Len(q), NEW r, r = Echo!RemoveAt(q, k)
  PROVE  /\ r \in Seq(Datagrams) /\ Cardinality(LinesOf(r)) \in Nat
         /\ Cardinality(LinesOf(r)) <= Cardinality(LinesOf(q))
<1>1. /\ r \in Seq(Datagrams) /\ Len(r) = Len(q) - 1
      /\ \A i \in 1 .. Len(r) : Old(i, k) \in 1 .. Len(q) \ {k} /\ r[i] = q[Old(i, k)]
  BY TakeOut
<1>. QED
  BY <1>1, LinesLess, LinesType

LEMMA LoseStep ==
  ASSUME EchoInv, Echo!Lose
  PROVE  EchoInv'
<1>. USE DEF Echo!Lose, EchoInv
<1>1. EchoType /\ client' \in [EchoProcesses -> Users]
  BY DEF EchoType
<1>2. CASE \E i \in DOMAIN toServer : toServer' = Echo!RemoveAt(toServer, i) /\ UNCHANGED replies
  <2>1. PICK i \in 1 .. Len(toServer) : toServer' = Echo!RemoveAt(toServer, i)
    BY <1>1, <1>2, EchoSizes
  <2>2. toServer \in Seq(Datagrams) /\ replies' \in Seq(Answers)
    BY <1>1, <1>2 DEF EchoType
  <2>3. /\ toServer' \in Seq(Datagrams) /\ Cardinality(LinesOf(toServer')) \in Nat
        /\ Cardinality(LinesOf(toServer')) <= Cardinality(LinesOf(toServer))
    BY <2>1, <2>2, LessByOne
  <2>. QED
    BY <1>1, <2>2, <2>3, EchoSizes, Faulty
<1>3. CASE \E i \in DOMAIN replies : replies' = Echo!RemoveAt(replies, i) /\ UNCHANGED toServer
  <2>1. PICK i \in 1 .. Len(replies) : replies' = Echo!RemoveAt(replies, i)
    BY <1>1, <1>3, EchoSizes
  <2>2. toServer' = toServer /\ toServer \in Seq(Datagrams) /\ replies \in Seq(Answers)
    BY <1>1, <1>3 DEF EchoType
  <2>3. replies' \in Seq(Answers)
    BY <2>1, <2>2, TakeOut
  <2>4. Cardinality(LinesOf(toServer')) <= Cardinality(LinesOf(toServer)) + 1
    BY <1>1, <2>2, EchoSizes
  <2>. QED
    BY <1>1, <2>2, <2>3, <2>4, Faulty
<1>. QED
  BY <1>2, <1>3

LEMMA RepeatStep ==
  ASSUME EchoInv, Echo!Repeat \/ Echo!Delay
  PROVE  EchoInv'
<1>. USE DEF EchoInv
<1>1. /\ EchoType /\ client' \in [EchoProcesses -> Users] /\ toServer \in Seq(Datagrams)
      /\ replies' \in Seq(Answers) /\ Echo!Fault
  BY DEF EchoType, Echo!Repeat, Echo!Delay
<1>2. PICK i \in 1 .. Len(toServer) :
         \/ toServer' = Append(toServer, toServer[i])
         \/ toServer' = Append(Echo!RemoveAt(toServer, i), toServer[i])
  BY <1>1, EchoSizes DEF Echo!Repeat, Echo!Delay
<1>3. toServer[i] \in Datagrams
  BY <1>1, ElementOfSeq
<1>4. ASSUME NEW q \in Seq(Datagrams), toServer' = Append(q, toServer[i]),
             Cardinality(LinesOf(q)) <= Cardinality(LinesOf(toServer))
      PROVE  EchoInv'
  <2>1. toServer' \in Seq(Datagrams) /\ toServer' = q \o <<toServer[i]>>
    BY <1>3, <1>4, PushOne
  <2>2. Cardinality(LinesOf(toServer')) <= Cardinality(LinesOf(q)) + 1
    BY <1>3, <2>1, MoreByOne
  <2>3. /\ Cardinality(LinesOf(toServer')) \in Nat /\ Cardinality(LinesOf(q)) \in Nat
        /\ Cardinality(LinesOf(toServer)) \in Nat
    BY <1>1, <2>1, LinesType
  <2>4. Cardinality(LinesOf(toServer')) <= Cardinality(LinesOf(toServer)) + 1
    BY <1>4, <2>2, <2>3
  <2>. QED
    BY <1>1, <2>1, <2>4, Faulty
<1>5. CASE toServer' = Append(toServer, toServer[i])
  <2>1. Cardinality(LinesOf(toServer)) <= Cardinality(LinesOf(toServer))
    BY <1>1, EchoSizes
  <2>. QED
    BY <1>1, <1>4, <1>5, <2>1
<1>6. CASE toServer' = Append(Echo!RemoveAt(toServer, i), toServer[i])
  BY <1>1, <1>4, <1>6, LessByOne
<1>. QED
  BY <1>2, <1>5, <1>6

LEMMA KillEchoStep ==
  ASSUME EchoInv, NEW c \in EchoProcesses, Echo!Kill(c)
  PROVE  EchoInv'
<1>1. client' \in [EchoProcesses -> Users]
  BY DEF EchoInv, EchoType, Users, Echo!Kill
<1>2. /\ toServer' = toServer /\ toServer \in Seq(Datagrams) /\ replies' \in Seq(Answers)
      /\ Echo!Fault
  BY DEF EchoInv, EchoType, Echo!Kill
<1>3. Cardinality(LinesOf(toServer')) <= Cardinality(LinesOf(toServer)) + 1
  BY <1>2, EchoSizes DEF EchoInv
<1>. QED
  BY <1>1, <1>2, <1>3, Faulty

\* Clients that stay on a with what they have sent.
LEMMA SameOn ==
  ASSUME NEW cl, NEW cl2, NEW a,
         \A c \in EchoProcesses : /\ On(cl2, c, a) <=> On(cl, c, a)
                                  /\ On(cl, c, a) => cl2[c].sent = cl[c].sent
  PROVE  /\ Alone(cl, a) => Alone(cl2, a)
         /\ \A n \in Nat : Reached(cl, a, n) => Reached(cl2, a, n)
BY DEF Alone, Reached

\* A last client that says CLOSE ends the numbering.
LEMMA SayClose ==
  ASSUME NEW q \in Seq(Datagrams), NEW r \in Seq(Datagrams), NEW m, NEW a, NEW cl,
         Len(r) = Len(q) + 1, \A i \in 1 .. Len(q) : r[i] = q[i],
         r[Len(q) + 1].from = a, r[Len(q) + 1].text = Echo!CLOSE,
         Numbered(q, m, a), \A c \in EchoProcesses : ~On(cl, c, a)
  PROVE  Sent(cl, m, r, a) /\ Alone(cl, a)
<1>1. Numbered(r, m, a) /\ \A n \in Nat : Final(r, m, a, n) => n = Echo!CLOSE
  <2>1. \A n \in Nat : Final(q, m, a, n) => r[Len(q) + 1].text \in {Echo!CLOSE, n + 1}
    OBVIOUS
  <2>2. Numbered(r, m, a) /\ \A n \in Nat : Final(r, m, a, n) => n = r[Len(q) + 1].text
    BY <2>1, PushOwn
  <2>. QED
    BY <2>2
<1>2. Reached(cl, a, Echo!CLOSE)
  BY DEF Reached, Echo!CLOSE
<1>. QED
  BY <1>1, <1>2 DEF Sent, Alone

LEMMA ToldStep ==
  ASSUME EchoInv, NEW c \in EchoProcesses, Echo!Told(c)
  PROVE  EchoInv'
<1>. USE DEF EchoInv
<1>1. /\ client[c].state = "up" /\ client' = [client EXCEPT ![c].state = "told"]
      /\ clients' = clients /\ toServer' = toServer /\ replies' = replies /\ sends' = sends
      /\ faults' = faults /\ shared' = shared /\ uePrinted' = uePrinted
  BY DEF Echo!Told
<1>2. EchoType'
  BY <1>1 DEF EchoType, Users
<1>3. ASSUME NEW a, NEW d \in EchoProcesses
      PROVE  (On(client', d, a) <=> On(client, d, a)) /\ client'[d].sent = client[d].sent
  BY <1>1 DEF EchoType, Users, On
<1>4. ASSUME NEW a, Order(a)
      PROVE  Order(a)'
  <2>1. Alone(client', a) /\ \A n \in Nat : Reached(client, a, n) => Reached(client', a, n)
    BY <1>3, <1>4, SameOn DEF Order
  <2>. QED
    BY <1>1, <1>4, <2>1 DEF Order, Sent
<1>. QED
  BY <1>1, <1>2, <1>4 DEF ListedOnce, BoundInv, OrderInv

LEMMA EchoQuiet ==
  ASSUME EchoInv, UNCHANGED <<client, clients, toServer, replies, sends, faults, shared, uePrinted>>
  PROVE  EchoInv'
BY DEF EchoInv, EchoType, ListedOnce, BoundInv, OrderInv, Order

LEMMA StartStep ==
  ASSUME EchoInv, NEW c \in EchoProcesses, Echo!Start(c)
  PROVE  EchoInv'
<1>. USE DEF EchoInv
<1>1. PICK b \in EchoAddresses :
        /\ client' = [client EXCEPT ![c] = [state |-> "up", addr |-> b, sent |-> 0]]
        /\ shared' = IF \E d \in EchoProcesses \ {c} : Echo!Up(d) /\ client[d].addr = b
                     THEN shared \union {b} ELSE shared
  BY DEF Echo!Start
<1>2. /\ client[c].state = "gone" /\ clients' = clients /\ toServer' = toServer
      /\ replies' = replies /\ sends' = sends /\ faults' = faults /\ uePrinted' = uePrinted
  BY DEF Echo!Start, Echo!Up
<1>3. EchoType'
  BY <1>1, <1>2 DEF EchoType, Users
<1>4. ASSUME NEW a \in EchoAddresses \ shared', Order(a)
      PROVE  Order(a)'
  <2>1. \A n \in Nat : Reached(client, a, n) => Reached(client', a, n)
    <3>1. CASE a = b
      <4>1. \A d \in EchoProcesses : ~On(client, d, a)
        BY <1>1, <1>2, <3>1 DEF On, Echo!Up
      <4>2. \A d \in EchoProcesses : On(client', d, a) => client'[d].sent = 0
        BY <1>1, <4>1 DEF On, EchoType
      <4>3. On(client', c, a)
        BY <1>1, <3>1 DEF On, EchoType
      <4>. QED
        BY <4>1, <4>2, <4>3 DEF Reached
    <3>2. CASE a # b
      <4>1. \A d \in EchoProcesses : /\ On(client', d, a) <=> On(client, d, a)
                                     /\ On(client, d, a) => client'[d].sent = client[d].sent
        BY <1>1, <1>2, <3>2 DEF On, EchoType
      <4>. QED
        BY <4>1, SameOn
    <3>. QED
      BY <3>1, <3>2
  <2>2. Alone(client', a)
    <3>1. a = b => \A d \in EchoProcesses : On(client', d, a) => d = c
      BY <1>1, <1>2 DEF On, Echo!Up, EchoType
    <3>2. a # b => \A d \in EchoProcesses : On(client', d, a) => On(client, d, a)
      BY <1>1, <1>2 DEF On, EchoType
    <3>. QED
      BY <1>4, <3>1, <3>2 DEF Alone, Order
  <2>. QED
    BY <1>2, <1>4, <2>1, <2>2 DEF Order, Sent
<1>5. shared \subseteq shared'
  BY <1>1
<1>. QED
  BY <1>2, <1>3, <1>4, <1>5 DEF ListedOnce, BoundInv, OrderInv

LEMMA QuitStep ==
  ASSUME EchoInv, NEW c \in EchoProcesses, Echo!Quit(c)
  PROVE  EchoInv'
<1>. USE DEF EchoInv
<1>. DEFINE b == client[c].addr
            d == [from |-> b, text |-> Echo!CLOSE]
<1>1. /\ On(client, c, b) /\ client' = [client EXCEPT ![c].state = "gone"]
      /\ toServer' = toServer \o <<d>>
      /\ clients' = clients /\ replies' = replies /\ sends' = sends
      /\ faults' = faults /\ shared' = shared /\ uePrinted' = uePrinted
  BY DEF Echo!Quit, Echo!send_packet, On, Echo!Up
<1>2. b \in EchoAddresses /\ d \in Datagrams /\ d.from = b /\ d.text = Echo!CLOSE
  BY DEF EchoType, Users, Datagrams, Echo!CLOSE
<1>. HIDE DEF d
<1>3. /\ toServer' \in Seq(Datagrams) /\ toServer \in Seq(Datagrams) /\ Len(toServer) \in Nat
      /\ Len(toServer') = Len(toServer) + 1
      /\ \A i \in 1 .. Len(toServer) : toServer'[i] = toServer[i]
      /\ toServer'[Len(toServer) + 1] = d
  <2>1. toServer \in Seq(Datagrams)
    BY DEF EchoType
  <2>. QED
    BY <1>1, <1>2, <2>1, PushOne
<1>4. EchoType'
  BY <1>1, <1>3 DEF EchoType, Users
<1>5. Bounded(clients', toServer', sends' + faults')
  <2>1. Cardinality(LinesOf(toServer')) <= Cardinality(LinesOf(toServer))
    BY <1>1, <1>2, <1>3, MoreByOne
  <2>2. Cardinality(LinesOf(toServer')) \in Nat
    BY <1>3, LinesType
  <2>. QED
    BY <1>1, <2>1, <2>2, EchoSizes DEF BoundInv, Bounded
<1>6. ASSUME NEW a, Order(a)
      PROVE  Order(a)'
  <2>1. CASE a = b
    <3>1. \A p \in EchoProcesses : ~On(client', p, a)
      BY <1>1, <1>6, <2>1 DEF On, Order, Alone, EchoType, Users
    <3>2. Sent(client', Count(clients, a), toServer', a) /\ Alone(client', a)
      <4>1. Numbered(toServer, Count(clients, a), a)
        BY <1>6 DEF Order, Sent
      <4>. QED
        BY <1>2, <1>3, <2>1, <3>1, <4>1, SayClose
    <3>. QED
      BY <1>1, <1>6, <3>2 DEF Order
  <2>2. CASE a # b
    <3>1. \A p \in EchoProcesses : /\ On(client', p, a) <=> On(client, p, a)
                                   /\ On(client, p, a) => client'[p].sent = client[p].sent
      BY <1>1, <2>2 DEF On, EchoType, Users
    <3>2. Alone(client', a) /\ \A n \in Nat : Reached(client, a, n) => Reached(client', a, n)
      BY <1>6, <3>1, SameOn DEF Order
    <3>3. /\ Len(toServer') >= Len(toServer)
          /\ \A i \in Len(toServer) + 1 .. Len(toServer') : toServer'[i].from # a
      BY <1>2, <1>3, <2>2
    <3>4. /\ Numbered(toServer, Count(clients, a), a) => Numbered(toServer', Count(clients, a), a)
          /\ \A n \in Nat : Final(toServer', Count(clients, a), a, n) =>
                               Final(toServer, Count(clients, a), a, n)
      BY <1>3, <3>3, PushOther
    <3>. QED
      BY <1>1, <1>6, <3>2, <3>4 DEF Order, Sent
  <2>. QED
    BY <2>1, <2>2
<1>. QED
  BY <1>1, <1>4, <1>5, <1>6 DEF ListedOnce, BoundInv, OrderInv

LEMMA SendStep ==
  ASSUME EchoInv, NEW c \in EchoProcesses, Echo!Send(c)
  PROVE  EchoInv'
<1>. USE DEF EchoInv
<1>. DEFINE b == client[c].addr
            bye == [from |-> b, text |-> Echo!CLOSE]
<1>1. PICK text \in {Echo!CLOSE, client[c].sent + 1} :
        /\ toServer' = toServer \o Echo!send_packet(c, text) \o Echo!Ending(c)
        /\ client' = [client EXCEPT ![c].sent = text, ![c].state = Echo!After(c)]
  BY DEF Echo!Send
<1>2. /\ On(client, c, b) /\ clients' = clients /\ replies' = replies /\ sends' = sends + 1
      /\ faults' = faults /\ shared' = shared /\ uePrinted' = uePrinted
  BY DEF Echo!Send, On, Echo!Up
<1>. DEFINE d == [from |-> b, text |-> text]
            q == toServer \o <<d>>
<1>3. /\ b \in EchoAddresses /\ client[c].sent \in Nat /\ text \in Nat
      /\ d \in Datagrams /\ d.from = b /\ d.text = text
      /\ bye \in Datagrams /\ bye.from = b /\ bye.text = Echo!CLOSE
      /\ toServer \in Seq(Datagrams)
  BY DEF EchoType, Users, Datagrams, Echo!CLOSE
<1>4. toServer' = IF client[c].state = "told" THEN q \o <<bye>> ELSE q \o <<>>
  BY <1>1 DEF Echo!send_packet, Echo!Ending
<1>. HIDE DEF d, bye
<1>5. /\ q \in Seq(Datagrams) /\ Len(toServer) \in Nat /\ Len(q) = Len(toServer) + 1
      /\ \A i \in 1 .. Len(toServer) : q[i] = toServer[i]
      /\ q[Len(toServer) + 1] = d
      /\ Cardinality(LinesOf(q)) \in Nat
      /\ Cardinality(LinesOf(q)) <= Cardinality(LinesOf(toServer)) + 1
  BY <1>3, PushOne, MoreByOne, LinesType
<1>. HIDE DEF q
<1>6. client[c].state # "told" => toServer' = q
  BY <1>4, <1>5, ConcatEmptySeq
<1>7. client[c].state = "told" =>
        /\ toServer' \in Seq(Datagrams) /\ Len(q) \in Nat /\ Len(toServer') = Len(q) + 1
        /\ \A i \in 1 .. Len(q) : toServer'[i] = q[i]
        /\ toServer'[Len(q) + 1] = bye
        /\ Cardinality(LinesOf(toServer')) <= Cardinality(LinesOf(q))
  BY <1>3, <1>4, <1>5, PushOne, MoreByOne
<1>8. toServer' \in Seq(Datagrams)
  BY <1>5, <1>6, <1>7
<1>9. EchoType'
  <2>1. Echo!After(c) \in {"up", "told", "gone"}
    BY DEF EchoType, Users, Echo!After
  <2>2. client' \in [EchoProcesses -> Users]
    <3>. DEFINE e == [client[c] EXCEPT !.sent = text, !.state = Echo!After(c)]
    <3>1. client \in [EchoProcesses -> Users] /\ client[c] \in Users
      BY DEF EchoType
    <3>2. e \in Users
      BY <1>3, <2>1, <3>1 DEF Users
    <3>3. client' = [client EXCEPT ![c] = e]
      BY <1>1, <3>1
    <3>. HIDE DEF e
    <3>. QED
      BY <3>1, <3>2, <3>3
  <2>. QED
    BY <1>2, <1>8, <2>2 DEF EchoType
<1>10. Bounded(clients', toServer', sends' + faults')
  <2>1. /\ Cardinality(LinesOf(toServer')) \in Nat
        /\ Cardinality(LinesOf(toServer')) <= Cardinality(LinesOf(toServer)) + 1
    <3>1. Cardinality(LinesOf(toServer')) \in Nat /\ Cardinality(LinesOf(toServer)) \in Nat
      BY <1>3, <1>8, LinesType
    <3>. QED
      BY <1>5, <1>6, <1>7, <3>1
  <2>. QED
    BY <1>2, <2>1, EchoSizes DEF BoundInv, Bounded
<1>11. ASSUME NEW a, Order(a)
       PROVE  Order(a)'
  <2>. DEFINE m == Count(clients, a)
  <2>1. Numbered(toServer, m, a) /\ \A n \in Nat : Final(toServer, m, a, n) => Reached(client, a, n)
    BY <1>11 DEF Order, Sent
  <2>. HIDE DEF m
  <2>2. CASE a = b
    <3>1. \A p \in EchoProcesses : On(client, p, a) => p = c
      BY <1>2, <1>11, <2>2 DEF Order, Alone
    <3>2. \A n \in Nat : Final(toServer, m, a, n) =>
                             q[Len(toServer) + 1].text \in {Echo!CLOSE, n + 1}
      BY <1>2, <1>3, <1>5, <2>1, <2>2 DEF Reached
    <3>3. Numbered(q, m, a) /\ \A n \in Nat : Final(q, m, a, n) => n = text
      BY <1>3, <1>5, <2>1, <2>2, <3>2, PushOwn
    <3>4. CASE client[c].state = "told"
      <4>1. \A p \in EchoProcesses : ~On(client', p, a)
        BY <1>1, <3>1, <3>4 DEF On, EchoType, Users, Echo!After
      <4>2. Sent(client', m, toServer', a) /\ Alone(client', a)
        BY <1>3, <1>5, <1>7, <2>2, <3>3, <3>4, <4>1, SayClose
      <4>. QED
        BY <1>2, <1>11, <4>2 DEF Order, m
    <3>5. CASE client[c].state # "told"
      <4>1. \A p \in EchoProcesses : On(client', p, a) => p = c /\ client'[p].sent = text
        BY <1>1, <3>1, <3>5 DEF On, EchoType, Users
      <4>2. On(client', c, a)
        BY <1>1, <1>2, <2>2, <3>5 DEF On, EchoType, Users, Echo!After
      <4>3. Reached(client', a, text) /\ Alone(client', a)
        BY <4>1, <4>2 DEF Reached, Alone
      <4>. QED
        BY <1>2, <1>6, <1>11, <3>3, <3>5, <4>3 DEF Order, Sent, m
    <3>. QED
      BY <3>4, <3>5
  <2>3. CASE a # b
    <3>1. \A p \in EchoProcesses : /\ On(client', p, a) <=> On(client, p, a)
                                   /\ On(client, p, a) => client'[p].sent = client[p].sent
      BY <1>1, <2>3 DEF On, EchoType, Users
    <3>2. Alone(client', a) /\ \A n \in Nat : Reached(client, a, n) => Reached(client', a, n)
      BY <1>11, <3>1, SameOn DEF Order
    <3>3. Numbered(q, m, a) /\ \A n \in Nat : Final(q, m, a, n) => Final(toServer, m, a, n)
      <4>1. /\ Len(q) >= Len(toServer)
            /\ \A i \in Len(toServer) + 1 .. Len(q) : q[i].from # a
        BY <1>3, <1>5, <2>3
      <4>. QED
        BY <1>3, <1>5, <2>1, <4>1, PushOther
    <3>4. /\ Numbered(toServer', m, a)
          /\ \A n \in Nat : Final(toServer', m, a, n) => Final(q, m, a, n)
      <4>1. CASE client[c].state = "told"
        <5>1. /\ Len(toServer') >= Len(q)
              /\ \A i \in Len(q) + 1 .. Len(toServer') : toServer'[i].from # a
          BY <1>3, <1>7, <2>3, <4>1
        <5>. QED
          BY <1>5, <1>7, <3>3, <4>1, <5>1, PushOther
      <4>. QED
        BY <1>6, <3>3, <4>1
    <3>. QED
      BY <1>2, <1>11, <2>1, <3>2, <3>3, <3>4 DEF Order, Sent, m
  <2>. QED
    BY <2>2, <2>3
<1>. QED
  BY <1>2, <1>9, <1>10, <1>11 DEF ListedOnce, BoundInv, OrderInv

LEMMA SameCardinality == \A S : Echo!Cardinality(S) = Cardinality(S)
BY Zenon DEF Echo!Cardinality, Cardinality

LEMMA HearStep ==
  ASSUME EchoInv, Echo!Hear
  PROVE  EchoInv'
<1>. USE DEF EchoInv
<1>. DEFINE r == Head(replies)
            b == r.to
            ending == {c \in {c \in EchoProcesses : Echo!Reply(c, r)} : client[c].state = "told"}
            bye == [from |-> b, text |-> Echo!CLOSE]
            byes == [i \in 1 .. Cardinality(ending) |-> bye]
<1>1. /\ replies # <<>> /\ replies' = Tail(replies)
      /\ uePrinted' = uePrinted \union {<<c, r>> : c \in {c \in EchoProcesses : Echo!Reply(c, r)}}
      /\ client' = [c \in EchoProcesses |->
                      IF c \in {p \in EchoProcesses : Echo!Reply(p, r)}
                      THEN [client[c] EXCEPT !.state = Echo!After(c)] ELSE client[c]]
      /\ toServer' = toServer \o byes
      /\ clients' = clients /\ sends' = sends /\ faults' = faults /\ shared' = shared
  <2>1. replies # <<>> /\ replies' = Tail(replies)
    BY DEF Echo!Hear
  <2>2. uePrinted' = uePrinted \union {<<c, r>> : c \in {c \in EchoProcesses : Echo!Reply(c, r)}}
    BY DEF Echo!Hear
  <2>3. client' = [c \in EchoProcesses |->
                      IF c \in {p \in EchoProcesses : Echo!Reply(p, r)}
                      THEN [client[c] EXCEPT !.state = Echo!After(c)] ELSE client[c]]
    BY DEF Echo!Hear
  <2>4. toServer' = toServer \o byes
    BY SameCardinality DEF Echo!Hear
  <2>5. clients' = clients /\ sends' = sends /\ faults' = faults /\ shared' = shared
    BY DEF Echo!Hear
  <2>. QED
    BY <2>1, <2>2, <2>3, <2>4, <2>5
<1>2. /\ replies \in Seq(Answers) /\ Len(replies) \in Nat /\ Len(replies) >= 1
      /\ r = replies[1] /\ r \in Answers
      /\ replies' \in Seq(Answers) /\ Len(replies') = Len(replies) - 1
      /\ \A i \in 1 .. Len(replies') : replies'[i] = replies[i + 1]
  <2>1. replies \in Seq(Answers)
    BY DEF EchoType
  <2>2. r = replies[1] /\ r \in Answers
    BY <1>1, <2>1, HeadTailProperties
  <2>3. Len(replies) \in Nat /\ Len(replies) # 0
    BY <1>1, <2>1, LenProperties, EmptySeq
  <2>4. /\ Tail(replies) \in Seq(Answers) /\ Len(Tail(replies)) = Len(replies) - 1
        /\ \A i \in 1 .. Len(Tail(replies)) : Tail(replies)[i] = replies[i + 1]
    BY <1>1, <2>1, HeadTailProperties
  <2>. QED
    BY <1>1, <2>1, <2>2, <2>3, <2>4
<1>. HIDE DEF r
<1>3. b \in EchoAddresses /\ bye \in Datagrams /\ bye.from = b /\ bye.text = Echo!CLOSE
  BY <1>2 DEF Answers, Datagrams, Echo!CLOSE
<1>4. IsFiniteSet(ending) /\ Cardinality(ending) \in Nat
  BY ConcurrentAssumption, FS_Subset, FS_CardinalityType
<1>5. \A c \in EchoProcesses : Echo!Reply(c, r) <=> On(client, c, b)
  BY DEF Echo!Reply, Echo!Up, On
<1>6. \A c \in EchoProcesses : client'[c] =
         IF On(client, c, b) THEN [client[c] EXCEPT !.state = Echo!After(c)] ELSE client[c]
  BY <1>1, <1>5
<1>7. \A c \in EchoProcesses : c \in ending <=> On(client, c, b) /\ client[c].state = "told"
  BY <1>5
<1>. HIDE DEF ending, b, bye
<1>8. /\ toServer \in Seq(Datagrams) /\ Len(toServer) \in Nat /\ toServer' \in Seq(Datagrams)
      /\ Len(toServer') = Len(toServer) + Cardinality(ending)
      /\ \A i \in 1 .. Len(toServer) : toServer'[i] = toServer[i]
      /\ \A i \in Len(toServer) + 1 .. Len(toServer') : toServer'[i] = bye
  <2>1. toServer \in Seq(Datagrams) /\ Len(toServer) \in Nat
    BY LenProperties DEF EchoType
  <2>2. byes \in Seq(Datagrams) /\ Len(byes) = Cardinality(ending)
    BY <1>3, <1>4, IsASeq
  <2>3. \A i \in 1 .. Cardinality(ending) : byes[i] = bye
    OBVIOUS
  <2>. HIDE DEF byes
  <2>4. /\ toServer \o byes \in Seq(Datagrams) /\ Len(toServer \o byes) = Len(toServer) + Len(byes)
        /\ \A i \in 1 .. Len(toServer) + Len(byes) : (toServer \o byes)[i] =
              IF i <= Len(toServer) THEN toServer[i] ELSE byes[i - Len(toServer)]
    BY <2>1, <2>2, ConcatProperties
  <2>5. \A i \in Len(toServer) + 1 .. Len(toServer) + Len(byes) :
           i - Len(toServer) \in 1 .. Cardinality(ending)
    BY <1>4, <2>1, <2>2
  <2>6. \A i \in Len(toServer) + 1 .. Len(toServer) + Len(byes) : (toServer \o byes)[i] = bye
    BY <1>4, <2>1, <2>2, <2>3, <2>4, <2>5
  <2>. QED
    BY <1>1, <1>4, <2>1, <2>2, <2>4, <2>6
<1>9. Len(toServer') >= Len(toServer)
  BY <1>4, <1>8
<1>10. EchoType'
  <2>1. \A c \in EchoProcesses : Echo!After(c) \in {"up", "told", "gone"}
    BY DEF EchoType, Users, Echo!After
  <2>2. client' \in [EchoProcesses -> Users]
    BY <1>1, <2>1 DEF EchoType, Users
  <2>3. uePrinted' \subseteq EchoProcesses \X Answers
    BY <1>1, <1>2 DEF EchoType
  <2>. QED
    BY <1>1, <1>2, <1>8, <2>2, <2>3 DEF EchoType
<1>11. Bounded(clients', toServer', sends' + faults')
  <2>1. Cardinality(LinesOf(toServer')) <= Cardinality(LinesOf(toServer))
    <3>1. /\ \A i \in Len(toServer) + 2 .. Len(toServer') : toServer'[i].text = Echo!CLOSE
          /\ Len(toServer') > Len(toServer) => toServer'[Len(toServer) + 1].text = Echo!CLOSE
      BY <1>3, <1>4, <1>8
    <3>. QED
      BY <1>8, <1>9, <3>1, LinesMore
  <2>2. Cardinality(LinesOf(toServer')) \in Nat
    BY <1>8, LinesType
  <2>. QED
    <3>1. /\ Cardinality(LinesOf(toServer)) \in Nat /\ sends \in Nat /\ faults \in Nat
          /\ \A i \in 1 .. Len(clients) : clients[i].counter \in Nat
      BY EchoSizes
    <3>2. Bounded(clients, toServer, sends + faults)
      BY DEF BoundInv
    <3>. QED
      <4>1. Bounded(clients, toServer', sends + faults)
        BY <2>1, <2>2, <3>1, <3>2 DEF Bounded
      <4>2. clients' = clients /\ sends' = sends /\ faults' = faults
        BY <1>1
      <4>. QED
        BY <4>1, <4>2
<1>12. ASSUME NEW a, Order(a)
       PROVE  Order(a)'
  <2>. DEFINE m == Count(clients, a)
  <2>1. Numbered(toServer, m, a) /\ \A n \in Nat : Final(toServer, m, a, n) => Reached(client, a, n)
    BY <1>12 DEF Order, Sent
  <2>. HIDE DEF m
  <2>2. Answered(replies', uePrinted', a)
    <3>1. r.to = a => r.number = r.text
      <4>1. 1 \in 1 .. Len(replies)
        BY <1>2
      <4>. QED
        BY <1>2, <1>12, <4>1 DEF Order, Answered
    <3>2. \A i \in 1 .. Len(replies') : i + 1 \in 1 .. Len(replies)
      BY <1>2
    <3>3. \A i \in 1 .. Len(replies') : replies'[i].to = a => replies'[i].number = replies'[i].text
      BY <1>2, <1>12, <3>2 DEF Order, Answered
    <3>4. \A p \in uePrinted' : p \in uePrinted \/ p[2] = r
      BY <1>1
    <3>. QED
      BY <1>12, <3>1, <3>3, <3>4 DEF Order, Answered
  <2>3. CASE a # b \/ ending = {}
    <3>1. \A c \in EchoProcesses : /\ On(client', c, a) <=> On(client, c, a)
                                   /\ On(client, c, a) => client'[c].sent = client[c].sent
      <4>1. CASE a # b
        BY <1>6, <4>1 DEF On, EchoType, Users
      <4>2. CASE ending = {}
        <5>1. \A c \in EchoProcesses : On(client, c, b) => Echo!After(c) = client[c].state
          BY <1>7, <4>2 DEF Echo!After
        <5>. QED
          BY <1>6, <5>1 DEF On, EchoType, Users
      <4>. QED
        BY <2>3, <4>1, <4>2
    <3>2. Alone(client', a) /\ \A n \in Nat : Reached(client, a, n) => Reached(client', a, n)
      BY <1>12, <3>1, SameOn DEF Order
    <3>3. \A i \in Len(toServer) + 1 .. Len(toServer') : toServer'[i].from # a
      <4>1. CASE a # b
        BY <1>3, <1>8, <4>1
      <4>2. CASE ending = {}
        BY <1>8, <4>2, FS_EmptySet
      <4>. QED
        BY <2>3, <4>1, <4>2
    <3>4. /\ Numbered(toServer', m, a)
          /\ \A n \in Nat : Final(toServer', m, a, n) => Final(toServer, m, a, n)
      BY <1>8, <1>9, <2>1, <3>3, PushOther
    <3>. QED
      BY <1>1, <2>1, <2>2, <3>2, <3>4 DEF Order, Sent, m
  <2>4. CASE a = b /\ ending # {}
    <3>1. PICK c \in EchoProcesses : On(client, c, b) /\ client[c].state = "told" /\ c \in ending
      <4>1. ending \subseteq EchoProcesses
        BY DEF ending
      <4>. QED
        BY <1>7, <2>4, <4>1
    <3>2. \A p \in EchoProcesses : On(client, p, a) => p = c
      BY <1>12, <2>4, <3>1 DEF Order, Alone
    <3>3. Cardinality(ending) = 1
      <4>1. ending = {c}
        BY <1>7, <2>4, <3>1, <3>2 DEF ending
      <4>. QED
        BY <4>1, FS_Singleton
    <3>4. \A p \in EchoProcesses : ~On(client', p, a)
      BY <1>6, <2>4, <3>1, <3>2 DEF On, Echo!After, EchoType, Users
    <3>5. Sent(client', m, toServer', a) /\ Alone(client', a)
      <4>1. /\ Len(toServer') = Len(toServer) + 1
            /\ toServer'[Len(toServer) + 1] = bye
        BY <1>8, <3>3
      <4>. QED
        BY <1>3, <1>8, <2>1, <2>4, <3>4, <4>1, SayClose
    <3>. QED
      BY <1>1, <2>2, <3>5 DEF Order, m
  <2>. QED
    BY <2>3, <2>4
<1>. QED
  BY <1>1, <1>10, <1>11, <1>12 DEF ListedOnce, BoundInv, OrderInv

\* A line raises the count of its address by one, CLOSE ends it.
LEMMA ListStep ==
  ASSUME NEW l \in Seq(Listed), Once(l), NEW d \in Datagrams, NEW l2, l2 = Served(l, d)
  PROVE  /\ l2 \in Seq(Listed) /\ Once(l2)
         /\ Count(l2, d.from) = IF d.text = Echo!CLOSE THEN 0 ELSE Count(l, d.from) + 1
         /\ \A b : b # d.from => Count(l2, b) = Count(l, b)
         /\ \A i \in 1 .. Len(l2) :
              \/ \E j \in 1 .. Len(l) : l2[i] = l[j]
              \/ /\ d.text # Echo!CLOSE
                 /\ l2[i].counter = 1 \/ \E j \in 1 .. Len(l) : l2[i].counter = l[j].counter + 1
<1>. DEFINE a == d.from
<1>1. a \in EchoAddresses
  BY DEF Datagrams
<1>. HIDE DEF a
<1>2. Count(l, a) \in Nat
  BY CountIs
<1>3. CASE KnownIn(l, a) = {} /\ d.text = Echo!CLOSE
  <2>1. l2 = l
    BY <1>3 DEF a, Served
  <2>. QED
    BY <1>2, <1>3, <2>1, CountIs DEF a
<1>4. CASE KnownIn(l, a) # {} /\ d.text = Echo!CLOSE
  <2>1. l2 = Removed(l, a)
    BY <1>4 DEF a, Served
  <2>2. /\ l2 \in Seq(Listed) /\ Once(l2) /\ Count(l2, a) = 0
        /\ \A b : b # a => Count(l2, b) = Count(l, b)
        /\ \A i \in 1 .. Len(l2) : \E j \in 1 .. Len(l) : l2[i] = l[j]
    BY <1>4, <2>1, CountNone
  <2>. QED
    BY <1>2, <1>4, <2>2 DEF a
<1>5. CASE KnownIn(l, a) = {} /\ d.text # Echo!CLOSE
  <2>1. l2 = Enlisted(l, a)
    BY <1>5 DEF a, Served
  <2>2. /\ l2 \in Seq(Listed) /\ Once(l2) /\ Count(l2, a) = 1
        /\ \A b : b # a => Count(l2, b) = Count(l, b)
        /\ \A i \in 1 .. Len(l2) : l2[i].counter = 1 \/ \E j \in 1 .. Len(l) : l2[i] = l[j]
    BY <1>1, <1>5, <2>1, AddOne
  <2>3. Count(l, a) = 0
    BY <1>5, CountIs
  <2>. QED
    BY <1>2, <1>5, <2>2, <2>3 DEF a
<1>6. CASE KnownIn(l, a) # {} /\ d.text # Echo!CLOSE
  <2>1. l2 = Counted(l, a, Count(l, a) + 1) /\ Count(l, a) + 1 \in Nat
    BY <1>2, <1>6 DEF a, Served
  <2>2. /\ l2 \in Seq(Listed) /\ Once(l2) /\ Count(l2, a) = Count(l, a) + 1
        /\ \A b : b # a => Count(l2, b) = Count(l, b)
        /\ \A i \in 1 .. Len(l2) :
              l2[i].counter = Count(l, a) + 1 \/ \E j \in 1 .. Len(l) : l2[i] = l[j]
    BY <1>6, <2>1, CountOne
  <2>3. FirstIn(l, a) \in 1 .. Len(l) /\ Count(l, a) = l[FirstIn(l, a)].counter
    BY <1>6, CountIs
  <2>. QED
    BY <1>2, <1>6, <2>2, <2>3 DEF a
<1>. QED
  BY <1>3, <1>4, <1>5, <1>6

LEMMA ProcessStep ==
  ASSUME EchoInv, Echo!process_packet
  PROVE  EchoInv'
<1>. USE DEF EchoInv
<1>. DEFINE d == Head(toServer)
            n == Count(clients, d.from) + 1
            answer == [to |-> d.from, text |-> d.text, number |-> n]
<1>1. /\ toServer # <<>> /\ toServer' = Tail(toServer)
      /\ clients' = Served(clients, d)
      /\ replies' = IF d.text = Echo!CLOSE THEN replies ELSE Append(replies, answer)
      /\ client' = client /\ sends' = sends /\ faults' = faults /\ shared' = shared
      /\ uePrinted' = uePrinted
  <2>1. toServer # <<>> /\ toServer' = Tail(toServer)
    BY DEF Echo!process_packet
  <2>2. client' = client /\ sends' = sends /\ faults' = faults /\ shared' = shared
        /\ uePrinted' = uePrinted
    BY DEF Echo!process_packet
  <2>3. n = IF KnownIn(clients, d.from) = {} THEN 1
            ELSE clients[FirstIn(clients, d.from)].counter + 1
    BY DEF Count
  <2>4. replies' = IF d.text = Echo!CLOSE THEN replies ELSE Append(replies, answer)
    BY <2>3 DEF Echo!process_packet, KnownIn, FirstIn, Echo!Known, Echo!find_client
  <2>5. clients' = Served(clients, d)
    <3>. HIDE DEF n
    <3>1. clients' = IF d.text = Echo!CLOSE
                     THEN IF KnownIn(clients, d.from) = {} THEN clients
                          ELSE Removed(clients, d.from)
                     ELSE IF KnownIn(clients, d.from) = {} THEN Enlisted(clients, d.from)
                          ELSE Counted(clients, d.from, n)
      BY <2>3 DEF Echo!process_packet, Echo!add_client, Echo!remove_client, KnownIn, FirstIn,
         Echo!Known, Echo!find_client, Removed, Enlisted, Counted
    <3>. QED
      BY <3>1 DEF Served, n
  <2>. QED
    BY <2>1, <2>2, <2>4, <2>5
<1>2. /\ toServer \in Seq(Datagrams) /\ Len(toServer) \in Nat /\ Len(toServer) >= 1
      /\ d = toServer[1] /\ d \in Datagrams
      /\ toServer' \in Seq(Datagrams) /\ Len(toServer') = Len(toServer) - 1
      /\ \A i \in 1 .. Len(toServer') : toServer'[i] = toServer[i + 1]
  <2>1. toServer \in Seq(Datagrams)
    BY DEF EchoType
  <2>2. d = toServer[1] /\ d \in Datagrams
    BY <1>1, <2>1, HeadTailProperties
  <2>3. Len(toServer) \in Nat /\ Len(toServer) # 0
    BY <1>1, <2>1, LenProperties, EmptySeq
  <2>4. /\ Tail(toServer) \in Seq(Datagrams) /\ Len(Tail(toServer)) = Len(toServer) - 1
        /\ \A i \in 1 .. Len(Tail(toServer)) : Tail(toServer)[i] = toServer[i + 1]
    BY <1>1, <2>1, HeadTailProperties
  <2>. QED
    BY <1>1, <2>1, <2>2, <2>3, <2>4
<1>. HIDE DEF d
<1>3. /\ clients' \in Seq(Listed) /\ Once(clients') /\ n \in Nat
      /\ Count(clients', d.from) = IF d.text = Echo!CLOSE THEN 0 ELSE n
      /\ \A b : b # d.from => Count(clients', b) = Count(clients, b)
      /\ \A i \in 1 .. Len(clients') :
           \/ \E j \in 1 .. Len(clients) : clients'[i] = clients[j]
           \/ /\ d.text # Echo!CLOSE
              /\ \/ clients'[i].counter = 1
                 \/ \E j \in 1 .. Len(clients) : clients'[i].counter = clients[j].counter + 1
  <2>1. clients \in Seq(Listed) /\ Once(clients) /\ clients' = Served(clients, d) /\ d \in Datagrams
    BY <1>1, <1>2 DEF EchoType, ListedOnce
  <2>2. n \in Nat
    BY <2>1, CountIs
  <2>. QED
    BY <2>1, <2>2, ListStep
<1>. HIDE DEF n
<1>4. /\ replies \in Seq(Answers) /\ replies' \in Seq(Answers) /\ Len(replies) \in Nat
      /\ d.text = Echo!CLOSE => replies' = replies
      /\ d.text # Echo!CLOSE => /\ Len(replies') = Len(replies) + 1
                                /\ \A i \in 1 .. Len(replies) : replies'[i] = replies[i]
                                /\ replies'[Len(replies) + 1] = answer
  <2>1. answer \in Answers
    BY <1>2, <1>3 DEF Answers, Datagrams
  <2>2. replies \in Seq(Answers) /\ Len(replies) \in Nat
    BY LenProperties DEF EchoType
  <2>. HIDE DEF answer
  <2>. QED
    BY <1>1, <2>1, <2>2, PutLast
<1>5. EchoType'
  BY <1>1, <1>2, <1>3, <1>4 DEF EchoType
<1>6. Bounded(clients', toServer', sends' + faults')
  <2>. DEFINE less == Cardinality(LinesOf(toServer'))
              lines == Cardinality(LinesOf(toServer))
              most == sends + faults
  <2>1. less <= lines /\ (d.text # Echo!CLOSE => less + 1 <= lines)
    <3>1. 1 \in 1 .. Len(toServer)
      BY <1>2
    <3>2. \A i \in 1 .. Len(toServer') : /\ Old(i, 1) \in 1 .. Len(toServer) \ {1}
                                         /\ toServer'[i] = toServer[Old(i, 1)]
      BY <1>2 DEF Old
    <3>. QED
      BY <1>2, <3>1, <3>2, LinesLess
  <2>2. /\ less \in Nat /\ lines \in Nat /\ most \in Nat
        /\ \A i \in 1 .. Len(clients) : clients[i].counter \in Nat
    BY <1>2, LinesType, EchoSizes
  <2>3. lines <= most /\ \A j \in 1 .. Len(clients) : clients[j].counter + lines <= most
    BY DEF BoundInv, Bounded
  <2>. HIDE DEF less, lines, most
  <2>4. less <= most
    BY <2>1, <2>2, <2>3
  <2>5. ASSUME NEW i \in 1 .. Len(clients')
        PROVE  clients'[i].counter + less <= most
    <3>1. ASSUME NEW j \in 1 .. Len(clients), clients'[i] = clients[j]
          PROVE  clients'[i].counter + less <= most
      BY <2>1, <2>2, <2>3, <3>1
    <3>2. CASE d.text # Echo!CLOSE /\ clients'[i].counter = 1
      BY <2>1, <2>2, <2>3, <3>2
    <3>3. ASSUME NEW j \in 1 .. Len(clients), clients'[i].counter = clients[j].counter + 1,
                 d.text # Echo!CLOSE
          PROVE  clients'[i].counter + less <= most
      BY <2>1, <2>2, <2>3, <3>3
    <3>. QED
      BY <1>3, <3>1, <3>2, <3>3
  <2>6. sends' + faults' = most
    BY <1>1 DEF most
  <2>. QED
    BY <2>4, <2>5, <2>6 DEF Bounded, less
<1>7. ASSUME NEW a \in EchoAddresses, Order(a)
      PROVE  Order(a)'
  <2>. DEFINE m == Count(clients, a)
              l == Count(clients', a)
  <2>1. Numbered(toServer, m, a) /\ \A k \in Nat : Final(toServer, m, a, k) => Reached(client, a, k)
    BY <1>7 DEF Order, Sent
  <2>2. m \in Nat /\ l \in Nat
    BY <1>3, CountIs DEF EchoType, ListedOnce
  <2>3. toServer[1].from = a => m + 1 = n /\ l = IF toServer[1].text = Echo!CLOSE THEN 0 ELSE m + 1
    BY <1>2, <1>3 DEF n
  <2>4. toServer[1].from # a => l = m
    BY <1>2, <1>3
  <2>. HIDE DEF m, l
  <2>5. toServer[1].from = a => toServer[1].text \in {Echo!CLOSE, m + 1}
    <3>1. 1 \in 1 .. Len(toServer) /\ Stands(toServer, m, a, 1, m)
      BY <1>2 DEF Stands
    <3>. QED
      BY <2>1, <2>2, <3>1 DEF Numbered
  <2>6. l = IF toServer[1].from = a THEN toServer[1].text ELSE m
    BY <2>2, <2>3, <2>4, <2>5 DEF Echo!CLOSE
  <2>7. /\ Numbered(toServer', l, a)
        /\ \A k \in Nat : Final(toServer', l, a, k) => Final(toServer, m, a, k)
    BY <1>2, <2>1, <2>2, <2>6, TakeFirst
  <2>8. Sent(client', l, toServer', a) /\ Alone(client', a)
    BY <1>1, <1>7, <2>1, <2>7 DEF Sent, Order
  <2>9. Answered(replies', uePrinted', a)
    <3>1. CASE d.text = Echo!CLOSE
      BY <1>1, <1>4, <1>7, <3>1 DEF Order
    <3>2. CASE d.text # Echo!CLOSE
      <4>1. answer.to = a => answer.number = answer.text
        BY <1>2, <2>3, <2>5, <3>2
      <4>. HIDE DEF answer
      <4>2. \A i \in 1 .. Len(replies') : i \in 1 .. Len(replies) \/ replies'[i] = answer
        BY <1>4, <3>2
      <4>. QED
        BY <1>1, <1>4, <1>7, <3>2, <4>1, <4>2 DEF Order, Answered
    <3>. QED
      BY <3>1, <3>2
  <2>. QED
    BY <2>8, <2>9 DEF Order, l
<1>. QED
  BY <1>1, <1>3, <1>5, <1>6, <1>7 DEF ListedOnce, BoundInv, OrderInv

LEMMA EchoInit == Init => EchoInv
<1>. SUFFICES ASSUME Init PROVE EchoInv
  OBVIOUS
<1>1. /\ client = [c \in EchoProcesses |->
                    [state |-> "gone", addr |-> CHOOSE a \in EchoAddresses : TRUE, sent |-> 0]]
      /\ clients = <<>> /\ toServer = <<>> /\ replies = <<>>
      /\ sends = 0 /\ faults = 0 /\ shared = {} /\ uePrinted = {}
  BY DEF Init, Echo!Init
<1>2. (CHOOSE a \in EchoAddresses : TRUE) \in EchoAddresses
  BY ConcurrentAssumption
<1>3. EchoType
  BY <1>1, <1>2 DEF EchoType, Users
<1>4. ListedOnce
  BY <1>1 DEF ListedOnce, Once
<1>5. BoundInv
  <2>1. LinesOf(toServer) = {} /\ Len(clients) = 0
    BY <1>1 DEF LinesOf
  <2>2. Cardinality(LinesOf(toServer)) = 0
    BY <2>1, FS_EmptySet
  <2>. QED
    BY <1>1, <2>1, <2>2 DEF BoundInv, Bounded
<1>6. ASSUME NEW a PROVE Order(a)
  <2>1. \A c \in EchoProcesses : ~On(client, c, a)
    BY <1>1 DEF On
  <2>2. Count(clients, a) = 0
    BY <1>1 DEF Count, KnownIn
  <2>3. Alone(client, a) /\ Answered(replies, uePrinted, a)
    BY <1>1, <2>1 DEF Alone, Answered
  <2>4. Numbered(toServer, 0, a) /\ \A n \in Nat : Final(toServer, 0, a, n) => n = 0
    BY <1>1 DEF Numbered, Final, Stands
  <2>5. Reached(client, a, 0)
    BY <2>1 DEF Reached
  <2>. QED
    BY <2>2, <2>3, <2>4, <2>5 DEF Order, Sent
<1>. QED
  BY <1>3, <1>4, <1>5, <1>6 DEF EchoInv, OrderInv

LEMMA EchoNext ==
  ASSUME EchoInv, [Next]_vars
  PROVE  EchoInv'
<1>1. CASE Echo!Next
  <2>1. ASSUME NEW c \in EchoProcesses,
               Echo!Start(c) \/ Echo!Send(c) \/ Echo!Told(c) \/ Echo!Quit(c) \/ Echo!Kill(c)
        PROVE  EchoInv'
    BY <2>1, StartStep, SendStep, ToldStep, QuitStep, KillEchoStep
  <2>2. CASE Echo!handle_signal
    BY <2>2, EchoQuiet DEF Echo!handle_signal
  <2>. QED
    BY <1>1, <2>1, <2>2, HearStep, ProcessStep, LoseStep, RepeatStep DEF Echo!Next
<1>2. CASE UNCHANGED ueVars
  BY <1>2, EchoQuiet DEF ueVars
<1>. QED
  BY <1>1, <1>2 DEF Next, vars

LEMMA EchoSafe == Spec => []EchoInv
<1>1. EchoInv /\ [Next]_vars => EchoInv'
  BY EchoNext
<1>. QED
  BY EchoInit, <1>1, PTL DEF Spec

\* Without faults the server of module2/cross1 numbers the lines of each run of a client
\* that has its address to itself from one, however the runs end, with or without a
\* signal, and whoever else talks to it; whatever faults there are, it lists an address
\* once and counts no more than was sent and repeated.
THEOREM LinesAreNumbered == Spec => []NumberedInOrder
<1>1. ASSUME EchoInv PROVE NumberedInOrder
  <2>1. DOMAIN clients = 1 .. Len(clients)
    BY <1>1, EchoSizes DEF EchoInv
  <2>2. ASSUME faults = 0, NEW p \in uePrinted, p[2].to \notin shared
        PROVE  p[2].number = p[2].text
    <3>1. p[2].to \in EchoAddresses
      BY <1>1 DEF EchoInv, EchoType, Answers
    <3>. QED
      BY <1>1, <2>2, <3>1 DEF EchoInv, OrderInv, Order, Answered
  <2>3. \A i, j \in DOMAIN clients : clients[i].addr = clients[j].addr => i = j
    BY <1>1, <2>1 DEF EchoInv, ListedOnce, Once
  <2>4. \A i \in DOMAIN clients : clients[i].counter <= sends + faults
    BY <1>1, <2>1, EchoSizes DEF EchoInv, BoundInv, Bounded
  <2>. QED
    BY <2>2, <2>3, <2>4 DEF NumberedInOrder, Echo!NumberedInOrder
<1>. QED
  BY <1>1, EchoSafe, PTL

=============================================================================

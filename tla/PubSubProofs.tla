----------------------------- MODULE PubSubProofs -----------------------------
(***************************************************************************)
(* Safety of PubSub for any number of publishers, subscribers and topics,   *)
(* any capacity of the queue, and any number of lines and Ctrl-Cs.          *)
(***************************************************************************)
EXTENDS PubSub, TLAPS, SequenceTheorems

\* A line on its way to the broker, one that the broker sent on, and the requests.
Posted == {m \in Messages : /\ m.cmd = "send" /\ m.to = Broker /\ m.pid \in Publishers
                            /\ m.topic = TopicOf[m.pid]}
Delivered == {m \in Messages : /\ m.cmd = "send" /\ m.to \in Subscribers /\ m.pid \in Publishers
                               /\ m.topic = TopicOf[m.pid] /\ m.topic \in ToSet(TopicsOf[m.to])
                               /\ m.n # 0}
Asked == {m \in Messages : /\ m.cmd \in {"subscribe", "unsubscribe"} /\ m.to = Broker
                           /\ m.pid \in Subscribers /\ m.topic \in ToSet(TopicsOf[m.pid])
                           /\ m.n = 0}
Line(m) == m.cmd = "send"

Entries == {e \in [pid : Subscribers, topics : SUBSET Topics] : e.topics \subseteq ToSet(TopicsOf[e.pid])}

BrokerPcs == {"start", "b_check", "b_recv", "b_process", "b_forward", "b_kill", "b_rmid", "done"}
PublisherPcs == {"start", "p_check", "p_fgets", "p_send", "done", "refused"}
SubscriberPcs == {"start", "s_sub", "s_check", "s_recv", "s_unsub", "done", "failed", "refused"}

\* Where everybody is, what the queue and the broker can hold.
PcInv ==
    /\ pc \in [Procs -> BrokerPcs \union PublisherPcs \union SubscriberPcs]
    /\ pc[Broker] \in BrokerPcs
    /\ \A p \in Publishers : pc[p] \in PublisherPcs
    /\ \A s \in Subscribers : pc[s] \in SubscriberPcs
    /\ asleep \subseteq Procs /\ exit_flag \in [Procs -> BOOLEAN]

IdxInv ==
    /\ idx \in [Procs -> Nat \ {0}]
    /\ \A s \in Subscribers :
          /\ pc[s] \in {"start"} \union Listening => idx[s] = 1
          /\ pc[s] = "s_sub" => idx[s] <= Len(TopicsOf[s])

DataInv ==
    /\ queue \in Seq(Posted \union Delivered \union Asked) /\ Len(queue) <= QueueCap
    /\ publishers \subseteq Publishers
    /\ subscribers \in Seq(Entries)
    /\ cur \in {NoMessage} \union Posted \union Asked
    /\ pc[Broker] = "b_process" => cur # NoMessage
    /\ pc[Broker] = "b_forward" => cur \in Posted /\ cur.n # 0
    /\ lines \in [Publishers -> 0 .. MaxLines] /\ signals \in 0 .. MaxSignals

HistoryInv ==
    /\ received \in [Subscribers -> Seq(Delivered)]
    /\ \A s \in Subscribers : \A i \in 1 .. Len(received[s]) : received[s][i].to = s
    /\ expected \in [Subscribers -> SUBSET (Publishers \X (1 .. MaxLines))]
    /\ \A s \in Subscribers : \A e \in expected[s] : TopicOf[e[1]] \in ToSet(TopicsOf[s])
    /\ unsubbed \subseteq Subscribers

TypeInv == PcInv /\ IdxInv /\ DataInv /\ HistoryInv

\* The queue lives as long as the broker.
QueueInv ==
    /\ qstate \in {"none", "live", "gone"}
    /\ qstate = "none" <=> pc[Broker] = "start"
    /\ qstate = "gone" <=> pc[Broker] = "done"
    /\ qstate # "live" => queue = <<>> /\ subscribers = <<>>
    /\ qstate = "none" => \A s \in Subscribers : pc[s] \in {"start", "refused"}

\* The array: each subscriber once, never without topics.
ArrayInv ==
    \A i, j \in 1 .. Len(subscribers) :
        /\ subscribers[i].topics # {}
        /\ subscribers[i].pid = subscribers[j].pid => i = j

-----------------------------------------------------------------------------
(* Order *)

\* A line its publisher typed and sent.
Sent(m) == m.n # 0 => m.n <= lines[m.pid] /\ (pc[m.pid] = "p_send" => m.n < lines[m.pid])

\* Not two lines of one publisher in the wrong order; an empty line does not matter.
Before(a, b) == a.pid = b.pid /\ b.n # 0 => a.n < b.n

\* The broker has a request in hand; it will still pass the entry of s.
AtWork == pc[Broker] \in {"b_process", "b_forward"}
StillToServe(s) ==
    \/ pc[Broker] = "b_process"
    \/ \E i \in 1 .. Len(subscribers) : i >= idx[Broker] /\ subscribers[i].pid = s

SentInv ==
    /\ \A i \in 1 .. Len(queue) : Line(queue[i]) => Sent(queue[i])
    /\ Line(cur) => Sent(cur)
    /\ \A s \in Subscribers : \A i \in 1 .. Len(received[s]) : Sent(received[s][i])

\* In the queue: lines to one process in order, and what was delivered before what is posted.
QueueOrder ==
    \A i, j \in 1 .. Len(queue) :
        /\ Line(queue[i]) /\ Line(queue[j])
        /\ \/ queue[i].to = queue[j].to /\ i < j
           \/ queue[i].to # Broker /\ queue[j].to = Broker
        => Before(queue[i], queue[j])

\* What a subscriber has printed comes before what waits for it or for the broker.
ReceivedOrder ==
    \A s \in Subscribers : \A i \in 1 .. Len(received[s]) :
        /\ \A j \in 1 .. Len(received[s]) : i < j => Before(received[s][i], received[s][j])
        /\ \A j \in 1 .. Len(queue) :
              Line(queue[j]) /\ queue[j].to \in {s, Broker} => Before(received[s][i], queue[j])

\* The line in the broker's hand comes before those that wait, and after those it has
\* delivered to the subscribers it still has to serve.
CurrentOrder ==
    AtWork /\ Line(cur) =>
        /\ \A j \in 1 .. Len(queue) :
              Line(queue[j]) =>
                  /\ queue[j].to = Broker => Before(cur, queue[j])
                  /\ queue[j].to # Broker /\ StillToServe(queue[j].to) => Before(queue[j], cur)
        /\ \A s \in Subscribers : \A i \in 1 .. Len(received[s]) :
              StillToServe(s) => Before(received[s][i], cur)

OrderInv == SentInv /\ QueueOrder /\ ReceivedOrder /\ CurrentOrder

-----------------------------------------------------------------------------
(* Leaving *)

\* The topics a subscriber will still unsubscribe from.
Remaining(s) ==
    {TopicsOf[s][k] : k \in {k \in 1 .. Len(TopicsOf[s]) :
        \/ pc[s] \in {"start", "s_sub"} \union Listening
        \/ pc[s] = "s_unsub" /\ k >= idx[s]}}

\* s's request to unsubscribe from t waits behind position k.
LeavesAfter(s, t, k) ==
    \/ t \in Remaining(s)
    \/ \E j \in 1 .. Len(queue) : /\ j > k /\ queue[j].cmd = "unsubscribe"
                                  /\ queue[j].pid = s /\ queue[j].topic = t

\* s is on the list for topic t.
IsListed(s, t) == \E i \in 1 .. Len(subscribers) : subscribers[i].pid = s /\ t \in subscribers[i].topics

\* Whoever had no request fail: each of its topics, listed or still requested, has an
\* unsubscribe request behind it, or to come.
LeaveInv ==
    \A s \in unsubbed : pc[s] # "failed" =>
        /\ \A t \in ToSet(TopicsOf[s]) : IsListed(s, t) =>
              \/ LeavesAfter(s, t, 0)
              \/ /\ pc[Broker] = "b_process" /\ cur.cmd = "unsubscribe"
                 /\ cur.pid = s /\ cur.topic = t
        /\ \A k \in 1 .. Len(queue) :
              queue[k].cmd = "subscribe" /\ queue[k].pid = s => LeavesAfter(s, queue[k].topic, k)
        /\ pc[Broker] = "b_process" /\ cur.cmd = "subscribe" /\ cur.pid = s
              => LeavesAfter(s, cur.topic, 0)

-----------------------------------------------------------------------------
(* Listening *)

\* s is on the list for topic t, or its request is under way.
Requested(s, t) ==
    \/ IsListed(s, t)
    \/ \E k \in 1 .. Len(queue) : queue[k].cmd = "subscribe" /\ queue[k].pid = s /\ queue[k].topic = t
    \/ pc[Broker] = "b_process" /\ cur.cmd = "subscribe" /\ cur.pid = s /\ cur.topic = t

\* A listening subscriber has requested all its topics, and taken back none.
RequestInv ==
    \A s \in Subscribers : pc[s] \in {"start", "s_sub"} \union Listening =>
        /\ qstate = "live" /\ pc[s] # "start" =>
              \A k \in 1 .. Len(TopicsOf[s]) : (pc[s] = "s_sub" => k < idx[s]) => Requested(s, TopicsOf[s][k])
        /\ \A k \in 1 .. Len(queue) : queue[k].pid = s => queue[k].cmd = "subscribe"
        /\ cur.pid = s => cur.cmd = "subscribe"
        /\ pc[s] \notin Listening => expected[s] = {}

\* The line that e stands for.
IsIt(m, e) == Line(m) /\ m.pid = e[1] /\ m.n = e[2]

\* No request of s waits behind position k.
AllAsked(s, k) ==
    \A j \in 1 .. Len(queue) : j > k /\ queue[j].pid = s => queue[j].cmd # "subscribe"

\* A line that a subscriber counts on stands behind its subscriptions.
BehindInv ==
    \A s \in Subscribers : pc[s] \in Listening =>
        \A e \in expected[s] :
            /\ \A k \in 1 .. Len(queue) : queue[k].to = Broker /\ IsIt(queue[k], e) => AllAsked(s, k)
            /\ AtWork /\ IsIt(cur, e) => AllAsked(s, 0)

Found(s, e) ==
    \/ \E i \in 1 .. Len(received[s]) : IsIt(received[s][i], e)
    \/ \E i \in 1 .. Len(queue) : queue[i].to \in {s, Broker} /\ IsIt(queue[i], e)
    \/ AtWork /\ IsIt(cur, e) /\ StillToServe(s)

FoundInv ==
    qstate = "live" /\ ~exit_flag[Broker] =>
        \A s \in Subscribers : pc[s] \in Listening => \A e \in expected[s] : Found(s, e)

ListenInv == RequestInv /\ BehindInv /\ FoundInv

\* The inductive invariant.
IndInv == TypeInv /\ QueueInv /\ ArrayInv /\ OrderInv /\ LeaveInv /\ ListenInv

-----------------------------------------------------------------------------
(* Facts about the operators *)

LEMMA Processes ==
  /\ Broker \in Procs /\ Broker \notin Publishers /\ Broker \notin Subscribers
  /\ \A p \in Publishers : p \in Procs /\ p # Broker /\ p \notin Subscribers
  /\ \A s \in Subscribers : s \in Procs /\ s # Broker /\ s \notin Publishers
  /\ \A p \in Procs : p = Broker \/ p \in Publishers \/ p \in Subscribers
  /\ MaxLines \in Nat /\ MaxSignals \in Nat
  /\ \A s \in Subscribers : /\ TopicsOf[s] \in Seq(Topics) /\ Len(TopicsOf[s]) \in Nat
                            /\ Len(TopicsOf[s]) >= 1
                            /\ ToSet(TopicsOf[s]) = {TopicsOf[s][k] : k \in 1 .. Len(TopicsOf[s])}
                            /\ ToSet(TopicsOf[s]) \subseteq Topics
  /\ \A p \in Publishers : TopicOf[p] \in Topics
<1>1. \A s \in Subscribers : TopicsOf[s] \in Seq(Topics) /\ TopicsOf[s] # <<>>
  BY PubSubAssumption
<1>2. ASSUME NEW s \in Subscribers
      PROVE  /\ Len(TopicsOf[s]) \in Nat /\ Len(TopicsOf[s]) >= 1
             /\ DOMAIN TopicsOf[s] = 1 .. Len(TopicsOf[s])
             /\ \A k \in 1 .. Len(TopicsOf[s]) : TopicsOf[s][k] \in Topics
  BY <1>1, EmptySeq, LenProperties, ElementOfSeq
<1>. QED
  BY <1>1, <1>2, PubSubAssumption DEF Procs, ToSet

LEMMA PutLast ==
  ASSUME NEW S, NEW s \in Seq(S), NEW e \in S
  PROVE  /\ Append(s, e) \in Seq(S) /\ Len(s) \in Nat /\ Len(Append(s, e)) = Len(s) + 1
         /\ \A k \in 1 .. Len(s) : Append(s, e)[k] = s[k]
         /\ Append(s, e)[Len(s) + 1] = e
BY AppendProperties, LenProperties

\* Where an element stood before the one at k was taken out, and where it stands after.
Old(i, k) == IF i < k THEN i ELSE i + 1
New(i, k) == IF i < k THEN i ELSE i - 1

LEMMA TakeOut ==
  ASSUME NEW S, NEW s \in Seq(S), NEW k \in 1 .. Len(s), NEW r, r = RemoveAt(s, k)
  PROVE  /\ r \in Seq(S) /\ Len(s) \in Nat /\ Len(r) = Len(s) - 1
         /\ \A i \in 1 .. Len(r) : Old(i, k) \in 1 .. Len(s) /\ Old(i, k) # k /\ r[i] = s[Old(i, k)]
         /\ \A i, j \in 1 .. Len(r) : i < j <=> Old(i, k) < Old(j, k)
         /\ \A i \in 1 .. Len(s) : i # k => New(i, k) \in 1 .. Len(r) /\ r[New(i, k)] = s[i]
         /\ \A i, j \in 1 .. Len(s) : i # k /\ j # k /\ i < j => New(i, k) < New(j, k)
<1>. DEFINE a == SubSeq(s, 1, k - 1)
            b == SubSeq(s, k + 1, Len(s))
<1>1. Len(s) \in Nat /\ \A i \in 1 .. Len(s) : s[i] \in S
  BY LenProperties, ElementOfSeq
<1>2. /\ a \in Seq(S) /\ Len(a) = k - 1 /\ \A i \in 1 .. k - 1 : a[i] = s[i]
  <2>1. \A i \in 1 .. k - 1 : s[i] \in S
    BY <1>1
  <2>2. /\ SubSeq(s, 1, k - 1) \in Seq(S)
        /\ Len(SubSeq(s, 1, k - 1)) = IF 1 <= k - 1 THEN k - 1 - 1 + 1 ELSE 0
        /\ \A i \in 1 .. k - 1 - 1 + 1 : SubSeq(s, 1, k - 1)[i] = s[1 + i - 1]
    BY <1>1, <2>1, SubSeqProperties
  <2>. QED
    BY <1>1, <2>2
<1>3. /\ b \in Seq(S) /\ Len(b) = Len(s) - k /\ \A i \in 1 .. Len(s) - k : b[i] = s[k + i]
  <2>1. \A i \in k + 1 .. Len(s) : s[i] \in S
    BY <1>1
  <2>2. /\ SubSeq(s, k + 1, Len(s)) \in Seq(S)
        /\ Len(SubSeq(s, k + 1, Len(s))) = IF k + 1 <= Len(s) THEN Len(s) - (k + 1) + 1 ELSE 0
        /\ \A i \in 1 .. Len(s) - (k + 1) + 1 : SubSeq(s, k + 1, Len(s))[i] = s[k + 1 + i - 1]
    BY <1>1, <2>1, SubSeqProperties
  <2>. QED
    BY <1>1, <2>2
<1>4. r = a \o b
  BY DEF RemoveAt
<1>. HIDE DEF a, b
<1>5. /\ r \in Seq(S) /\ Len(r) = Len(a) + Len(b)
      /\ \A i \in 1 .. Len(a) : r[i] = a[i]
      /\ \A i \in Len(a) + 1 .. Len(a) + Len(b) : r[i] = b[i - Len(a)]
  <2>1. /\ a \o b \in Seq(S) /\ Len(a \o b) = Len(a) + Len(b)
        /\ \A i \in 1 .. Len(a) + Len(b) : (a \o b)[i] = IF i <= Len(a) THEN a[i] ELSE b[i - Len(a)]
    BY <1>2, <1>3, ConcatProperties
  <2>2. Len(a) \in Nat /\ Len(b) \in Nat
    BY <1>2, <1>3, LenProperties
  <2>. QED
    BY <1>4, <2>1, <2>2
<1>6. \A i \in 1 .. Len(s) - 1 : r[i] = s[Old(i, k)]
  <2>1. \A i \in 1 .. Len(s) - 1 : i < k => r[i] = s[i]
    BY <1>1, <1>2, <1>5
  <2>2. ASSUME NEW i \in 1 .. Len(s) - 1, ~(i < k) PROVE r[i] = s[i + 1]
    <3>1. r[i] = b[i - (k - 1)] /\ i - (k - 1) \in 1 .. Len(s) - k
      BY <1>1, <1>2, <1>3, <1>5, <2>2
    <3>2. b[i - (k - 1)] = s[k + (i - (k - 1))] /\ k + (i - (k - 1)) = i + 1
      BY <1>1, <1>3, <3>1
    <3>. QED
      BY <3>1, <3>2
  <2>. QED
    BY <2>1, <2>2 DEF Old
<1>7. Len(r) = Len(s) - 1
  BY <1>1, <1>2, <1>3, <1>5
<1>8. \A i \in 1 .. Len(s) : i # k => New(i, k) \in 1 .. Len(r) /\ Old(New(i, k), k) = i
  BY <1>1, <1>7 DEF Old, New
<1>9. \A i \in 1 .. Len(s) : i # k => r[New(i, k)] = s[i]
  BY <1>6, <1>7, <1>8
<1>10. /\ \A i \in 1 .. Len(r) : Old(i, k) \in 1 .. Len(s) /\ Old(i, k) # k
       /\ \A i, j \in 1 .. Len(r) : i < j <=> Old(i, k) < Old(j, k)
       /\ \A i, j \in 1 .. Len(s) : i # k /\ j # k /\ i < j => New(i, k) < New(j, k)
  BY <1>1, <1>7 DEF Old, New
<1>. QED
  BY <1>1, <1>5, <1>6, <1>7, <1>8, <1>9, <1>10

\* What each kind of message is.
LEMMA Kinds ==
  /\ \A m \in Posted : /\ m.cmd = "send" /\ m.to = Broker /\ m.pid \in Publishers
                       /\ m.n \in 0 .. MaxLines /\ m.topic = TopicOf[m.pid]
  /\ \A m \in Delivered : /\ m.cmd = "send" /\ m.to \in Subscribers /\ m.to # Broker
                          /\ m.pid \in Publishers /\ m.n \in 1 .. MaxLines
                          /\ m.topic = TopicOf[m.pid] /\ m.topic \in ToSet(TopicsOf[m.to])
  /\ \A m \in Asked : /\ m.cmd \in {"subscribe", "unsubscribe"} /\ m.to = Broker /\ m.pid \in Subscribers
                      /\ m.topic \in ToSet(TopicsOf[m.pid]) /\ m.n = 0
  /\ Posted \subseteq Messages /\ Delivered \subseteq Messages /\ Asked \subseteq Messages
  /\ NoMessage \in Messages /\ NoMessage.cmd = "none" /\ NoMessage.pid = Broker
  /\ NoMessage.n = 0 /\ NoMessage.to = Broker
BY Processes DEF Posted, Delivered, Asked, Messages, NoMessage, Message

LEMMA Queued ==
  ASSUME TypeInv
  PROVE  /\ Len(queue) \in Nat
         /\ \A k \in 1 .. Len(queue) :
               /\ queue[k] \in Posted \union Delivered \union Asked
               /\ queue[k] \in Messages
               /\ Line(queue[k]) => queue[k] \in Posted \union Delivered /\ queue[k].pid \in Publishers
               /\ queue[k].to = Broker \/ queue[k].to \in Subscribers
               /\ ~Line(queue[k]) => queue[k] \in Asked
         /\ cur \in Messages /\ (Line(cur) => cur \in Posted /\ cur.pid \in Publishers)
         /\ \A s \in Subscribers : /\ Len(received[s]) \in Nat
                                   /\ \A i \in 1 .. Len(received[s]) :
                                         /\ received[s][i] \in Delivered /\ received[s][i].to = s
                                         /\ Line(received[s][i]) /\ received[s][i].pid \in Publishers
         /\ Len(subscribers) \in Nat
         /\ \A i \in 1 .. Len(subscribers) :
               /\ subscribers[i] \in Entries /\ subscribers[i].pid \in Subscribers
               /\ subscribers[i].topics \subseteq ToSet(TopicsOf[subscribers[i].pid])
<1>1. /\ Len(queue) \in Nat
      /\ \A k \in 1 .. Len(queue) : queue[k] \in Posted \union Delivered \union Asked
  BY LenProperties, ElementOfSeq DEF TypeInv, DataInv
<1>2. \A s \in Subscribers : /\ Len(received[s]) \in Nat
                             /\ \A i \in 1 .. Len(received[s]) : received[s][i] \in Delivered
                                                                 /\ received[s][i].to = s
  BY LenProperties, ElementOfSeq DEF TypeInv, HistoryInv
<1>3. /\ Len(subscribers) \in Nat
      /\ \A i \in 1 .. Len(subscribers) : subscribers[i] \in Entries
  BY LenProperties, ElementOfSeq DEF TypeInv, DataInv
<1>4. cur \in {NoMessage} \union Posted \union Asked
  BY DEF TypeInv, DataInv
<1>. QED
  BY <1>1, <1>2, <1>3, <1>4, Kinds DEF Line, Entries

LEMMA PcMoves ==
  ASSUME TypeInv, NEW p \in Procs, NEW l, Goto(p, l)
  PROVE  pc'[p] = l /\ \A q \in Procs : q # p => pc'[q] = pc[q]
BY DEF TypeInv, PcInv, Goto

-----------------------------------------------------------------------------
(* Steps that send nothing and take nothing *)

\* The broker begins no work and finishes no request but by passing the entries it has served.
BrokerQuiet ==
    /\ pc'[Broker] = "b_process" <=> pc[Broker] = "b_process"
    /\ pc'[Broker] = "b_forward" => pc[Broker] = "b_forward" /\ idx'[Broker] \in Nat /\ idx'[Broker] >= idx[Broker]

\* A publisher has sent what it had sent.
PublisherQuiet(p) ==
    \/ lines'[p] = lines[p] /\ (pc'[p] = "p_send" => pc[p] = "p_send")
    \/ lines'[p] = lines[p] + 1

\* A subscriber that goes on listening or subscribing, or still has to take back what it had.
SubscriberQuiet(s) ==
    /\ s \in unsubbed' /\ pc'[s] # "failed" =>
          s \in unsubbed /\ pc[s] # "failed" /\ Remaining(s) \subseteq Remaining(s)'
    /\ pc'[s] \in Listening => pc[s] \in Listening
    /\ pc'[s] = "s_sub" => \/ pc[s] = "s_sub" /\ idx'[s] = idx[s]
                           \/ pc[s] = "start" /\ idx'[s] = 1
    /\ pc'[s] = "start" => pc[s] = "start"

LEMMA SentStays ==
  ASSUME TypeInv, NEW m \in Messages, m.pid \in Publishers, PublisherQuiet(m.pid), Sent(m)
  PROVE  Sent(m)'
<1>1. m.n \in Nat /\ lines[m.pid] \in Nat
  BY Processes DEF Messages, TypeInv, DataInv
<1>. QED
  BY <1>1 DEF Sent, PublisherQuiet

LEMMA QuietOrder ==
  ASSUME IndInv, BrokerQuiet, \A p \in Publishers : PublisherQuiet(p),
         UNCHANGED <<queue, cur, subscribers, received>>
  PROVE  OrderInv'
<1>0. \A m \in Messages : m.pid \in Publishers /\ Sent(m) => Sent(m)'
  BY SentStays DEF IndInv
<1>1. SentInv'
  <2>1. \A i \in 1 .. Len(queue) : Line(queue[i]) => Sent(queue[i])'
    BY <1>0, Queued DEF IndInv, OrderInv, SentInv
  <2>2. Line(cur) => Sent(cur)'
    BY <1>0, Queued DEF IndInv, OrderInv, SentInv
  <2>3. \A s \in Subscribers : \A i \in 1 .. Len(received[s]) : Sent(received[s][i])'
    BY <1>0, Queued, Kinds DEF IndInv, OrderInv, SentInv
  <2>. QED
    BY <2>1, <2>2, <2>3 DEF SentInv, Sent
<1>2. QueueOrder' /\ ReceivedOrder'
  BY DEF IndInv, OrderInv, QueueOrder, ReceivedOrder
<1>3. AtWork' => AtWork /\ \A s : StillToServe(s)' => StillToServe(s)
  <2>1. /\ idx[Broker] \in Nat
        /\ pc'[Broker] = "b_forward" => idx'[Broker] \in Nat /\ idx'[Broker] >= idx[Broker]
    BY Processes DEF BrokerQuiet, IndInv, TypeInv, IdxInv
  <2>2. ASSUME AtWork', NEW s, StillToServe(s)' PROVE StillToServe(s)
    BY <2>1, <2>2, Queued DEF AtWork, BrokerQuiet, StillToServe, IndInv
  <2>. QED
    BY <2>2 DEF AtWork, BrokerQuiet
<1>4. CurrentOrder'
  BY <1>3 DEF IndInv, OrderInv, CurrentOrder, Before, Line
<1>. QED
  BY <1>1, <1>2, <1>4 DEF OrderInv

LEMMA QuietLeave ==
  ASSUME IndInv, BrokerQuiet, \A s \in Subscribers : SubscriberQuiet(s), unsubbed' \subseteq unsubbed,
         UNCHANGED <<queue, cur, subscribers>>
  PROVE  LeaveInv'
<1>. SUFFICES ASSUME NEW s \in unsubbed', pc'[s] # "failed"
              PROVE  /\ \A t \in ToSet(TopicsOf[s]) : IsListed(s, t)' =>
                          \/ LeavesAfter(s, t, 0)'
                          \/ /\ pc'[Broker] = "b_process" /\ cur.cmd = "unsubscribe"
                             /\ cur.pid = s /\ cur.topic = t
                     /\ \A k \in 1 .. Len(queue) :
                          queue[k].cmd = "subscribe" /\ queue[k].pid = s => LeavesAfter(s, queue[k].topic, k)'
                     /\ pc'[Broker] = "b_process" /\ cur.cmd = "subscribe" /\ cur.pid = s
                          => LeavesAfter(s, cur.topic, 0)'
  BY DEF LeaveInv, LeavesAfter
<1>1. s \in unsubbed /\ pc[s] # "failed" /\ Remaining(s) \subseteq Remaining(s)'
  BY DEF SubscriberQuiet, IndInv, TypeInv, HistoryInv
<1>2. \A t, k : LeavesAfter(s, t, k) => LeavesAfter(s, t, k)'
  BY <1>1 DEF LeavesAfter
<1>3. \A t : IsListed(s, t)' <=> IsListed(s, t)
  BY DEF IsListed
<1>. QED
  BY <1>1, <1>2, <1>3 DEF IndInv, LeaveInv, BrokerQuiet

LEMMA QuietRequests ==
  ASSUME IndInv, BrokerQuiet, \A s \in Subscribers : SubscriberQuiet(s),
         UNCHANGED <<qstate, queue, cur, subscribers, expected>>
  PROVE  RequestInv' /\ BehindInv'
<1>1. \A s, t : Requested(s, t) => Requested(s, t)'
  BY DEF Requested, IsListed, BrokerQuiet
<1>2. ASSUME NEW s \in Subscribers, pc'[s] \in {"start", "s_sub"} \union Listening
      PROVE  pc[s] \in {"start", "s_sub"} \union Listening
  BY <1>2 DEF SubscriberQuiet
<1>3. RequestInv'
  <2>. SUFFICES ASSUME NEW s \in Subscribers, pc'[s] \in {"start", "s_sub"} \union Listening
                PROVE  /\ qstate = "live" /\ pc'[s] # "start" =>
                            \A k \in 1 .. Len(TopicsOf[s]) :
                                (pc'[s] = "s_sub" => k < idx'[s]) => Requested(s, TopicsOf[s][k])'
                       /\ \A k \in 1 .. Len(queue) : queue[k].pid = s => queue[k].cmd = "subscribe"
                       /\ cur.pid = s => cur.cmd = "subscribe"
                       /\ pc'[s] \notin Listening => expected[s] = {}
    BY DEF RequestInv, Requested, IsListed
  <2>1. pc[s] \in {"start", "s_sub"} \union Listening
    BY <1>2
  <2>2. pc'[s] \notin Listening => pc[s] \notin Listening
    BY DEF SubscriberQuiet, Listening
  <2>3. ASSUME qstate = "live", pc'[s] # "start", NEW k \in 1 .. Len(TopicsOf[s]),
               pc'[s] = "s_sub" => k < idx'[s]
        PROVE  Requested(s, TopicsOf[s][k])
    <3>1. pc[s] # "start" /\ (pc[s] = "s_sub" => k < idx[s])
      BY <2>3, <2>1, Processes DEF SubscriberQuiet, Listening
    <3>. QED
      BY <2>1, <2>3, <3>1 DEF IndInv, ListenInv, RequestInv
  <2>. QED
    BY <1>1, <2>1, <2>2, <2>3 DEF IndInv, ListenInv, RequestInv
<1>4. BehindInv'
  <2>1. AtWork' => AtWork
    BY DEF AtWork, BrokerQuiet
  <2>2. \A s, k : AllAsked(s, k)' <=> AllAsked(s, k)
    BY DEF AllAsked
  <2>3. \A s \in Subscribers : pc'[s] \in Listening => pc[s] \in Listening
    BY DEF SubscriberQuiet
  <2>. QED
    BY <2>1, <2>2, <2>3 DEF IndInv, ListenInv, BehindInv, IsIt, Line
<1>. QED
  BY <1>3, <1>4

\* The broker stays where it is, or has no line to look for, or will look no more.
LEMMA QuietFound ==
  ASSUME IndInv, \A s \in Subscribers : SubscriberQuiet(s),
         UNCHANGED <<queue, cur, subscribers, received, expected>>,
         qstate' = "live" => qstate = "live", exit_flag[Broker] => exit_flag'[Broker],
         \/ pc'[Broker] = pc[Broker] /\ idx'[Broker] = idx[Broker]
         \/ exit_flag'[Broker]
         \/ ~AtWork
  PROVE  FoundInv'
<1>. SUFFICES ASSUME qstate = "live", ~exit_flag[Broker], ~exit_flag'[Broker],
                     NEW s \in Subscribers, pc'[s] \in Listening, NEW e \in expected[s]
              PROVE  Found(s, e)'
  BY DEF FoundInv
<1>1. Found(s, e)
  BY DEF SubscriberQuiet, IndInv, ListenInv, FoundInv
<1>. QED
  BY <1>1 DEF Found, IsIt, Line, AtWork, StillToServe

LEMMA QuietStep ==
  ASSUME IndInv, PcInv', IdxInv', BrokerQuiet,
         pc'[Broker] = "start" <=> pc[Broker] = "start", pc'[Broker] = "done" <=> pc[Broker] = "done",
         \A p \in Publishers : PublisherQuiet(p), \A s \in Subscribers : SubscriberQuiet(s),
         UNCHANGED <<qstate, queue, lists, received, expected>>,
         lines' \in [Publishers -> 0 .. MaxLines], signals' \in 0 .. MaxSignals,
         unsubbed' \subseteq unsubbed, qstate = "none" => \A s \in Subscribers : pc'[s] \in {"start", "refused"},
         FoundInv'
  PROVE  IndInv'
<1>1. TypeInv'
  <2>1. DataInv'
    BY DEF IndInv, TypeInv, DataInv, BrokerQuiet, lists
  <2>2. HistoryInv'
    BY DEF IndInv, TypeInv, HistoryInv
  <2>. QED
    BY <2>1, <2>2 DEF TypeInv
<1>2. QueueInv' /\ ArrayInv'
  BY DEF IndInv, QueueInv, ArrayInv, lists
<1>3. OrderInv' /\ LeaveInv' /\ RequestInv' /\ BehindInv'
  BY QuietOrder, QuietLeave, QuietRequests DEF lists
<1>. QED
  BY <1>1, <1>2, <1>3 DEF IndInv, ListenInv

\* Falling asleep changes nothing else.
LEMMA SleepStep ==
  ASSUME IndInv, NEW p \in Procs, asleep' = asleep \union {p},
         UNCHANGED <<pc, exit_flag, idx, qstate, queue, lists, users, history>>
  PROVE  IndInv'
<1>1. PcInv' /\ IdxInv'
  BY DEF IndInv, TypeInv, PcInv, IdxInv
<1>2. BrokerQuiet
  <2>1. idx[Broker] \in Nat
    BY Processes DEF IndInv, TypeInv, IdxInv
  <2>. QED
    BY <2>1 DEF BrokerQuiet
<1>3. \A s \in Subscribers : SubscriberQuiet(s)
  BY DEF SubscriberQuiet, Remaining, history
<1>4. \A q \in Publishers : PublisherQuiet(q)
  BY DEF PublisherQuiet, users
<1>5. FoundInv'
  BY <1>3, QuietFound DEF lists, history
<1>6. /\ lines' \in [Publishers -> 0 .. MaxLines] /\ signals' \in 0 .. MaxSignals
      /\ qstate = "none" => \A s \in Subscribers : pc'[s] \in {"start", "refused"}
  BY DEF IndInv, TypeInv, DataInv, QueueInv, users
<1>. QED
  BY <1>1, <1>2, <1>3, <1>4, <1>5, <1>6, QuietStep DEF history

\* The broker goes to another place of its loop, with nothing in hand, or towards its end.
LEMMA BrokerMoves ==
  ASSUME IndInv, NEW l \in {"b_check", "b_recv", "b_kill"}, Goto(Broker, l),
         pc[Broker] \in {"b_check", "b_recv"},
         UNCHANGED <<asleep, exit_flag, idx, qstate, queue, lists, users, history>>
  PROVE  IndInv'
<1>1. pc'[Broker] = l /\ \A q \in Procs : q # Broker => pc'[q] = pc[q]
  BY PcMoves, Processes DEF IndInv
<1>2. PcInv' /\ IdxInv'
  BY <1>1, Processes DEF IndInv, TypeInv, PcInv, IdxInv, BrokerPcs, Goto
<1>3. BrokerQuiet
  BY <1>1 DEF BrokerQuiet
<1>4. \A s \in Subscribers : SubscriberQuiet(s)
  BY <1>1, Processes DEF SubscriberQuiet, Remaining, history
<1>5. \A q \in Publishers : PublisherQuiet(q)
  BY <1>1, Processes DEF PublisherQuiet, users
<1>6. FoundInv'
  BY <1>4, QuietFound DEF lists, history, AtWork
<1>7. /\ lines' \in [Publishers -> 0 .. MaxLines] /\ signals' \in 0 .. MaxSignals
      /\ qstate = "none" => \A s \in Subscribers : pc'[s] \in {"start", "refused"}
  BY <1>1, Processes DEF IndInv, TypeInv, DataInv, QueueInv, users
<1>. QED
  BY <1>1, <1>2, <1>3, <1>4, <1>5, <1>6, <1>7, QuietStep DEF history

LEMMA PublisherMoves ==
  ASSUME IndInv, NEW p \in Publishers, NEW l \in PublisherPcs, Goto(p, l),
         asleep' \subseteq asleep, PublisherQuiet(p), \A q \in Publishers \ {p} : lines'[q] = lines[q],
         lines' \in [Publishers -> 0 .. MaxLines],
         UNCHANGED <<exit_flag, idx, qstate, queue, lists, signals, history>>
  PROVE  IndInv'
<1>1. pc'[p] = l /\ \A q \in Procs : q # p => pc'[q] = pc[q]
  BY PcMoves, Processes DEF IndInv
<1>2. PcInv' /\ IdxInv'
  BY <1>1, Processes DEF IndInv, TypeInv, PcInv, IdxInv, Goto
<1>3. BrokerQuiet
  <2>1. idx[Broker] \in Nat
    BY Processes DEF IndInv, TypeInv, IdxInv
  <2>. QED
    BY <1>1, <2>1, Processes DEF BrokerQuiet
<1>4. \A s \in Subscribers : SubscriberQuiet(s)
  BY <1>1, Processes DEF SubscriberQuiet, Remaining, history
<1>5. \A q \in Publishers : PublisherQuiet(q)
  BY <1>1, Processes DEF PublisherQuiet
<1>6. FoundInv'
  BY <1>1, <1>4, QuietFound, Processes DEF lists, history
<1>7. /\ signals' \in 0 .. MaxSignals
      /\ qstate = "none" => \A s \in Subscribers : pc'[s] \in {"start", "refused"}
  BY <1>1, Processes DEF IndInv, TypeInv, DataInv, QueueInv
<1>. QED
  BY <1>1, <1>2, <1>3, <1>4, <1>5, <1>6, <1>7, Processes, QuietStep DEF history

LEMMA SubscriberMoves ==
  ASSUME IndInv, NEW s \in Subscribers, NEW l \in SubscriberPcs, Goto(s, l),
         asleep' \subseteq asleep, SubscriberQuiet(s), \A q \in Procs \ {s} : idx'[q] = idx[q],
         idx' \in [Procs -> Nat \ {0}], l \in {"start"} \union Listening => idx'[s] = 1,
         l = "s_sub" => idx'[s] <= Len(TopicsOf[s]),
         unsubbed' \in {unsubbed, unsubbed \ {s}}, qstate = "none" => l \in {"start", "refused"},
         UNCHANGED <<exit_flag, qstate, queue, lists, users, received, expected>>
  PROVE  IndInv'
<1>1. pc'[s] = l /\ \A q \in Procs : q # s => pc'[q] = pc[q]
  BY PcMoves, Processes DEF IndInv
<1>2. PcInv'
  BY <1>1, Processes DEF IndInv, TypeInv, PcInv, Goto
<1>3. IdxInv'
  BY <1>1, Processes DEF IndInv, TypeInv, IdxInv
<1>4. BrokerQuiet
  <2>1. idx[Broker] \in Nat
    BY Processes DEF IndInv, TypeInv, IdxInv
  <2>. QED
    BY <1>1, <2>1, Processes DEF BrokerQuiet
<1>5. \A r \in Subscribers : SubscriberQuiet(r)
  <2>1. ASSUME NEW r \in Subscribers, r # s PROVE SubscriberQuiet(r)
    <3>1. pc'[r] = pc[r] /\ idx'[r] = idx[r] /\ (r \in unsubbed' => r \in unsubbed)
      BY <1>1, <2>1, Processes
    <3>. QED
      BY <3>1 DEF SubscriberQuiet, Remaining
  <2>. QED
    BY <2>1
<1>6. \A q \in Publishers : PublisherQuiet(q)
  BY <1>1, Processes DEF PublisherQuiet, users
<1>7. FoundInv'
  BY <1>1, <1>5, QuietFound, Processes DEF lists
<1>8. /\ lines' \in [Publishers -> 0 .. MaxLines] /\ signals' \in 0 .. MaxSignals
      /\ qstate = "none" => \A r \in Subscribers : pc'[r] \in {"start", "refused"}
  BY <1>1, Processes DEF IndInv, TypeInv, DataInv, QueueInv, users
<1>. QED
  BY <1>1, <1>2, <1>3, <1>4, <1>5, <1>6, <1>7, <1>8, Processes, QuietStep

\* SIGINT for some processes: a sleeping one wakes up and leaves its call.
LEMMA SigintStep ==
  ASSUME IndInv, NEW ps, NEW p \in Procs, NEW l, Sigint(ps, p, l),
         \/ l = pc[p] /\ pc[p] # "start"
         \/ p = Broker /\ pc[p] = "b_kill" /\ l = "b_rmid",
         UNCHANGED <<qstate, queue, lists, lines, received, expected>>, signals' \in 0 .. MaxSignals
  PROVE  IndInv'
<1>. DEFINE alive == {q \in ps : pc[q] \notin Ended}
            woken == alive \intersect asleep
            skip  == {q \in woken : pc[q] \in {"b_forward", "s_unsub"}}
<1>1. /\ exit_flag' = [q \in Procs |-> exit_flag[q] \/ q \in alive]
      /\ asleep' = asleep \ woken
      /\ idx' = [q \in Procs |-> IF q \in skip THEN idx[q] + 1 ELSE idx[q]]
      /\ unsubbed' = unsubbed \ skip
      /\ pc' = [q \in Procs |-> IF q \in woken THEN AfterEintr(q) ELSE IF q = p THEN l ELSE pc[q]]
  BY DEF Sigint
<1>2. \A q \in Procs : q \in skip => q \in woken /\ q \in alive /\ pc[q] \in {"b_forward", "s_unsub"}
  OBVIOUS
<1>3. \A q \in Procs : q \in woken => q \in alive
  OBVIOUS
<1>4. \A q \in Procs : pc'[q] \in {pc[q], AfterEintr(q)} \/ (q = Broker /\ pc[q] = "b_kill" /\ pc'[q] = "b_rmid")
  BY <1>1
<1>5. \A q \in Procs : q \in skip => pc'[q] = pc[q]
  BY <1>1, <1>2 DEF AfterEintr
<1>. HIDE DEF alive, woken, skip
<1>6. /\ idx \in [Procs -> Nat \ {0}]
      /\ pc \in [Procs -> BrokerPcs \union PublisherPcs \union SubscriberPcs]
      /\ exit_flag \in [Procs -> BOOLEAN]
      /\ pc[Broker] \in BrokerPcs
      /\ \A q \in Publishers : pc[q] \in PublisherPcs
      /\ \A q \in Subscribers : pc[q] \in SubscriberPcs
  BY DEF IndInv, TypeInv, PcInv, IdxInv
<1>7. /\ \A q \in Publishers : pc'[q] = pc[q] \/ (pc[q] = "p_send" /\ pc'[q] = "done")
      /\ \A q \in Subscribers : \/ pc'[q] = pc[q]
                                \/ pc[q] = "s_recv" /\ pc'[q] = "s_check"
                                \/ pc[q] = "s_sub" /\ pc'[q] = "failed"
      /\ \/ pc'[Broker] = pc[Broker]
         \/ pc[Broker] = "b_recv" /\ pc'[Broker] = "b_check"
         \/ pc[Broker] = "b_kill" /\ pc'[Broker] = "b_rmid"
  BY <1>4, <1>6, Processes DEF AfterEintr, BrokerPcs, PublisherPcs, SubscriberPcs
<1>8. PcInv'
  <2>1. pc' \in [Procs -> BrokerPcs \union PublisherPcs \union SubscriberPcs]
    <3>1. \A q \in Procs : pc'[q] \in BrokerPcs \union PublisherPcs \union SubscriberPcs
      BY <1>6, <1>7, Processes DEF BrokerPcs, PublisherPcs, SubscriberPcs
    <3>. QED
      BY <1>1, <3>1
  <2>2. asleep' \subseteq Procs /\ exit_flag' \in [Procs -> BOOLEAN]
    BY <1>1, <1>6 DEF IndInv, TypeInv, PcInv
  <2>. QED
    BY <1>6, <1>7, <2>1, <2>2 DEF PcInv, BrokerPcs, PublisherPcs, SubscriberPcs
<1>9. \A q \in Procs : idx'[q] \in Nat \ {0} /\ idx'[q] >= idx[q]
                       /\ (idx'[q] # idx[q] => q \in skip)
  BY <1>1, <1>6
<1>10. IdxInv'
  <2>1. idx' \in [Procs -> Nat \ {0}]
    BY <1>1, <1>9
  <2>2. ASSUME NEW s \in Subscribers
        PROVE  /\ pc'[s] \in {"start"} \union Listening => idx'[s] = 1
               /\ pc'[s] = "s_sub" => idx'[s] <= Len(TopicsOf[s])
    <3>1. pc'[s] # "s_unsub" => idx'[s] = idx[s]
      BY <1>2, <1>5, <1>6, <1>9, Processes DEF SubscriberPcs
    <3>. QED
      BY <1>7, <3>1 DEF IndInv, TypeInv, IdxInv, Listening
  <2>. QED
    BY <2>1, <2>2 DEF IdxInv
<1>11. BrokerQuiet
  BY <1>7, <1>9, Processes DEF BrokerQuiet
<1>12. \A q \in Publishers : PublisherQuiet(q)
  BY <1>7 DEF PublisherQuiet
<1>13. ASSUME NEW s \in Subscribers PROVE SubscriberQuiet(s)
  <2>1. s \in unsubbed' => idx'[s] = idx[s] /\ s \in unsubbed
    BY <1>1, <1>9, Processes
  <2>2. pc'[s] # "s_unsub" => idx'[s] = idx[s]
    BY <1>2, <1>5, <1>6, <1>9, Processes DEF SubscriberPcs
  <2>3. CASE pc'[s] = pc[s]
    BY <2>1, <2>2, <2>3 DEF SubscriberQuiet, Remaining
  <2>4. CASE pc[s] = "s_recv" /\ pc'[s] = "s_check"
    BY <2>1, <2>4 DEF SubscriberQuiet, Remaining, Listening
  <2>5. CASE pc[s] = "s_sub" /\ pc'[s] = "failed"
    BY <2>5 DEF SubscriberQuiet, Listening
  <2>. QED
    BY <1>7, <2>3, <2>4, <2>5
<1>14. FoundInv'
  <2>1. exit_flag[Broker] => exit_flag'[Broker]
    BY <1>1, Processes
  <2>2. \/ pc'[Broker] = pc[Broker] /\ idx'[Broker] = idx[Broker]
        \/ exit_flag'[Broker]
        \/ ~AtWork
    <3>1. CASE Broker \in skip
      BY <1>1, <1>2, <3>1, Processes
    <3>2. CASE Broker \notin skip
      BY <1>7, <1>9, <3>2, Processes DEF AtWork
    <3>. QED
      BY <3>1, <3>2
  <2>. QED
    BY <1>13, <2>1, <2>2, QuietFound DEF lists
<1>15. /\ lines' \in [Publishers -> 0 .. MaxLines] /\ unsubbed' \subseteq unsubbed
       /\ pc'[Broker] = "start" <=> pc[Broker] = "start"
       /\ pc'[Broker] = "done" <=> pc[Broker] = "done"
       /\ qstate = "none" => \A s \in Subscribers : pc'[s] \in {"start", "refused"}
  BY <1>1, <1>7 DEF IndInv, TypeInv, DataInv, QueueInv
<1>. QED
  BY <1>8, <1>10, <1>11, <1>12, <1>13, <1>14, <1>15, QuietStep

-----------------------------------------------------------------------------
(* The quiet actions *)

LEMMA InitInv == Init => IndInv
<1>. SUFFICES ASSUME Init PROVE IndInv
  OBVIOUS
<1>. USE DEF Init
<1>1. PcInv
  BY Processes DEF PcInv, BrokerPcs, PublisherPcs, SubscriberPcs
<1>2. IdxInv
  BY Processes DEF IdxInv
<1>3. DataInv
  BY Processes, EmptySeq, Kinds, PubSubAssumption DEF DataInv
<1>4. HistoryInv
  BY EmptySeq DEF HistoryInv
<1>5. QueueInv /\ ArrayInv
  BY Processes DEF QueueInv, ArrayInv
<1>6. OrderInv
  BY Kinds, Processes DEF OrderInv, SentInv, QueueOrder, ReceivedOrder, CurrentOrder, AtWork, Line
<1>7. LeaveInv
  BY Processes DEF LeaveInv, IsListed
<1>8. ListenInv
  BY Processes, Kinds DEF ListenInv, RequestInv, BehindInv, FoundInv, Listening
<1>. QED
  BY <1>1, <1>2, <1>3, <1>4, <1>5, <1>6, <1>7, <1>8 DEF IndInv, TypeInv

\* No process but publishers and subscribers that were refused came before the broker.
LEMMA BrokerStartStep ==
  ASSUME IndInv, BrokerStart
  PROVE  IndInv'
<1>. USE DEF BrokerStart
<1>1. pc'[Broker] = "b_check" /\ \A q \in Procs : q # Broker => pc'[q] = pc[q]
  BY PcMoves, Processes DEF IndInv
<1>2. PcInv' /\ IdxInv'
  BY <1>1, Processes DEF IndInv, TypeInv, PcInv, IdxInv, BrokerPcs, Goto
<1>3. BrokerQuiet
  BY <1>1 DEF BrokerQuiet
<1>4. \A s \in Subscribers : SubscriberQuiet(s)
  BY <1>1, Processes DEF SubscriberQuiet, Remaining, history
<1>5. \A q \in Publishers : PublisherQuiet(q)
  BY <1>1, Processes DEF PublisherQuiet, users
<1>6. DataInv' /\ HistoryInv'
  BY <1>1 DEF IndInv, TypeInv, DataInv, HistoryInv, lists, users, history
<1>7. QueueInv' /\ ArrayInv'
  BY <1>1 DEF IndInv, QueueInv, ArrayInv, lists
<1>8. OrderInv' /\ LeaveInv'
  BY <1>3, <1>4, <1>5, QuietOrder, QuietLeave DEF lists, history
<1>9. \A s \in Subscribers : pc'[s] \in {"start", "refused"} /\ pc'[s] = pc[s]
  BY <1>1, Processes DEF IndInv, QueueInv
<1>10. ListenInv'
  BY <1>9 DEF IndInv, ListenInv, RequestInv, BehindInv, FoundInv, Listening, lists, history
<1>. QED
  BY <1>2, <1>6, <1>7, <1>8, <1>10 DEF IndInv, TypeInv

LEMMA BrokerCheckStep ==
  ASSUME IndInv, BrokerCheck
  PROVE  IndInv'
BY BrokerMoves DEF BrokerCheck

LEMMA AttachPublisher ==
  ASSUME IndInv, NEW p \in Publishers, Attach(p, "p_check")
  PROVE  IndInv'
<1>1. \A l : Goto(p, l) => pc'[p] = l
  BY PcMoves, Processes DEF IndInv
<1>2. PublisherQuiet(p) /\ lines' = lines
  BY <1>1 DEF Attach, PublisherQuiet, users
<1>. QED
  BY <1>2, PublisherMoves DEF Attach, PublisherPcs, users, IndInv, TypeInv, DataInv

LEMMA ReadLineStep ==
  ASSUME IndInv, NEW p \in Publishers, ReadLine(p)
  PROVE  IndInv'
<1>1. \A l : Goto(p, l) => pc'[p] = l
  BY PcMoves, Processes DEF IndInv
<1>2. PublisherQuiet(p) /\ lines' = lines
  BY <1>1 DEF ReadLine, PublisherQuiet
<1>. QED
  BY <1>2, PublisherMoves DEF ReadLine, PublisherPcs, IndInv, TypeInv, DataInv

LEMMA TypeLineStep ==
  ASSUME IndInv, NEW p \in Publishers, TypeLine(p)
  PROVE  IndInv'
<1>1. \A l : Goto(p, l) => pc'[p] = l
  BY PcMoves, Processes DEF IndInv
<1>2. lines \in [Publishers -> 0 .. MaxLines] /\ MaxLines \in Nat
  BY Processes DEF IndInv, TypeInv, DataInv
<1>3. PublisherQuiet(p)
  BY <1>1, <1>2 DEF TypeLine, PublisherQuiet
<1>4. lines' \in [Publishers -> 0 .. MaxLines] /\ \A q \in Publishers \ {p} : lines'[q] = lines[q]
  BY <1>2 DEF TypeLine
<1>. QED
  BY <1>3, <1>4, PublisherMoves DEF TypeLine, PublisherPcs

LEMMA PublishFailsStep ==
  ASSUME IndInv, NEW p \in Publishers, PublishFails(p)
  PROVE  IndInv'
<1>1. \A l : Goto(p, l) => pc'[p] = l
  BY PcMoves, Processes DEF IndInv
<1>2. PublisherQuiet(p) /\ lines' = lines
  BY <1>1 DEF PublishFails, PublisherQuiet, users
<1>. QED
  BY <1>2, PublisherMoves DEF PublishFails, QueueRemoved, PublisherPcs, users, IndInv, TypeInv, DataInv

\* While there is no queue, nothing is listed and nothing under way.
LEMMA NoQueue ==
  ASSUME IndInv, qstate # "live", UNCHANGED <<queue, lists>>, pc'[Broker] = pc[Broker]
  PROVE  LeaveInv'
BY DEF IndInv, QueueInv, LeaveInv, IsListed, lists

LEMMA AttachSubscriber ==
  ASSUME IndInv, NEW s \in Subscribers, Attach(s, "s_sub")
  PROVE  IndInv'
<1>. USE DEF Attach
<1>1. pc[s] = "start" /\ idx[s] = 1 /\ idx' = idx /\ idx \in [Procs -> Nat \ {0}]
  BY DEF IndInv, TypeInv, IdxInv
<1>2. CASE qstate = "live"
  <2>1. pc'[s] = "s_sub"
    BY <1>2, PcMoves, Processes DEF IndInv
  <2>2. SubscriberQuiet(s)
    BY <1>1, <2>1 DEF SubscriberQuiet, Remaining, Listening, history
  <2>. QED
    BY <1>1, <1>2, <2>2, Processes, SubscriberMoves DEF SubscriberPcs, history
<1>3. CASE qstate # "live"
  <2>1. pc'[s] = "refused" /\ \A q \in Procs : q # s => pc'[q] = pc[q]
    BY <1>3, PcMoves, Processes DEF IndInv
  <2>2. PcInv' /\ IdxInv'
    <3>1. pc' \in [Procs -> BrokerPcs \union PublisherPcs \union SubscriberPcs]
      BY <1>3 DEF Goto, IndInv, TypeInv, PcInv, SubscriberPcs
    <3>. QED
      BY <1>1, <2>1, <3>1, Processes DEF IndInv, TypeInv, PcInv, IdxInv, SubscriberPcs
  <2>3. pc'[Broker] = pc[Broker] /\ DataInv' /\ HistoryInv'
    BY <2>1, Processes DEF IndInv, TypeInv, DataInv, HistoryInv, lists, users, history
  <2>4. QueueInv' /\ ArrayInv'
    BY <2>1, <2>3, Processes DEF IndInv, QueueInv, ArrayInv, lists
  <2>5. BrokerQuiet
    <3>1. idx[Broker] \in Nat
      BY Processes DEF IndInv, TypeInv, IdxInv
    <3>. QED
      BY <3>1, <2>3 DEF BrokerQuiet
  <2>6. \A q \in Publishers : PublisherQuiet(q)
    BY <2>1, Processes DEF PublisherQuiet, users
  <2>7. OrderInv' /\ LeaveInv'
    BY <1>3, <2>3, <2>5, <2>6, QuietOrder, NoQueue DEF lists, history
  <2>8. ListenInv'
    <3>1. AtWork' <=> AtWork
      BY <2>3 DEF AtWork
    <3>2. \A r \in Subscribers : pc'[r] # "refused" => pc'[r] = pc[r]
      BY <2>1, Processes
    <3>3. RequestInv'
      BY <1>3, <3>2 DEF IndInv, ListenInv, RequestInv, Listening, lists, history
    <3>4. BehindInv'
      BY <3>1, <3>2 DEF IndInv, ListenInv, BehindInv, Listening, lists, history, AllAsked, IsIt, Line
    <3>5. FoundInv'
      BY <1>3 DEF FoundInv
    <3>. QED
      BY <3>3, <3>4, <3>5 DEF ListenInv
  <2>. QED
    BY <2>2, <2>3, <2>4, <2>7, <2>8 DEF IndInv, TypeInv
<1>. QED
  BY <1>2, <1>3

LEMMA SubscribeFailsStep ==
  ASSUME IndInv, NEW s \in Subscribers, SubscribeFails(s)
  PROVE  IndInv'
<1>. USE DEF SubscribeFails, QueueRemoved
<1>1. pc'[s] = "failed"
  BY PcMoves, Processes DEF IndInv
<1>2. SubscriberQuiet(s)
  BY <1>1 DEF SubscriberQuiet, Listening
<1>3. idx' = idx /\ idx \in [Procs -> Nat \ {0}]
  BY DEF IndInv, TypeInv, IdxInv
<1>. QED
  BY <1>2, <1>3, Processes, SubscriberMoves DEF SubscriberPcs, Listening, history

LEMMA SubscriberCheckStep ==
  ASSUME IndInv, NEW s \in Subscribers, SubscriberCheck(s)
  PROVE  IndInv'
<1>. USE DEF SubscriberCheck
<1>1. pc'[s] = IF exit_flag[s] THEN "s_unsub" ELSE "s_recv"
  BY PcMoves, Processes DEF IndInv
<1>2. idx' = idx /\ idx \in [Procs -> Nat \ {0}] /\ idx[s] = 1 /\ qstate # "none"
  BY DEF IndInv, TypeInv, IdxInv, Listening, QueueInv
<1>3. SubscriberQuiet(s)
  <2>1. \A k \in 1 .. Len(TopicsOf[s]) : k >= idx[s]
    BY <1>2, Processes
  <2>. QED
    BY <1>1, <1>2, <2>1 DEF SubscriberQuiet, Listening, Remaining, history
<1>. QED
  BY <1>2, <1>3, Processes, SubscriberMoves DEF SubscriberPcs, history

LEMMA SubscriberReceiveFailsStep ==
  ASSUME IndInv, NEW s \in Subscribers, SubscriberReceiveFails(s)
  PROVE  IndInv'
<1>. USE DEF SubscriberReceiveFails, QueueRemoved
<1>1. pc'[s] = "s_unsub"
  BY PcMoves, Processes DEF IndInv
<1>2. idx' = idx /\ idx \in [Procs -> Nat \ {0}] /\ idx[s] = 1
  BY DEF IndInv, TypeInv, IdxInv, Listening
<1>3. SubscriberQuiet(s)
  <2>1. \A k \in 1 .. Len(TopicsOf[s]) : k >= idx[s]
    BY <1>2, Processes
  <2>. QED
    BY <1>1, <1>2, <2>1 DEF SubscriberQuiet, Listening, Remaining, history
<1>. QED
  BY <1>2, <1>3, Processes, SubscriberMoves DEF SubscriberPcs, Listening, history

LEMMA SubscriberEndStep ==
  ASSUME IndInv, NEW s \in Subscribers, SubscriberEnd(s)
  PROVE  IndInv'
<1>. USE DEF SubscriberEnd
<1>1. pc'[s] = "done"
  BY PcMoves, Processes DEF IndInv
<1>2. idx' = idx /\ idx \in [Procs -> Nat \ {0}] /\ qstate # "none"
  BY DEF IndInv, TypeInv, IdxInv, QueueInv
<1>3. SubscriberQuiet(s)
  <2>1. \A k \in 1 .. Len(TopicsOf[s]) : ~(k >= idx[s])
    BY <1>2, Processes
  <2>. QED
    BY <1>1, <1>2, <2>1 DEF SubscriberQuiet, Listening, Remaining, history
<1>. QED
  BY <1>2, <1>3, Processes, SubscriberMoves DEF SubscriberPcs, Listening, history

LEMMA CleanupKillStep ==
  ASSUME IndInv, CleanupKill
  PROVE  IndInv'
BY SigintStep, Processes DEF CleanupKill, users, IndInv, TypeInv, DataInv

LEMMA CtrlCStep ==
  ASSUME IndInv, NEW p \in CtrlCTargets, CtrlC(p)
  PROVE  IndInv'
<1>1. p \in Procs /\ signals' \in 0 .. MaxSignals
  BY PubSubAssumption DEF CtrlC, IndInv, TypeInv, DataInv
<1>. QED
  BY <1>1, SigintStep DEF CtrlC

-----------------------------------------------------------------------------
(* Steps that send *)

\* A message at the end of the queue keeps the order if it is in order with all that is
\* there, what its reader has printed and the broker has in hand.
LEMMA SendOrder ==
  ASSUME IndInv, NEW m \in Posted \union Delivered \union Asked, queue' = Append(queue, m),
         BrokerQuiet, \A p \in Publishers : PublisherQuiet(p), UNCHANGED <<cur, subscribers, received>>,
         Line(m) => Sent(m)',
         Line(m) => \A i \in 1 .. Len(queue) :
            Line(queue[i]) /\ (queue[i].to = m.to \/ m.to = Broker) => Before(queue[i], m),
         Line(m) /\ m.to # Broker => \A i \in 1 .. Len(queue) :
            Line(queue[i]) /\ queue[i].to = Broker => Before(m, queue[i]),
         Line(m) => \A s \in Subscribers : \A i \in 1 .. Len(received[s]) :
            m.to \in {s, Broker} => Before(received[s][i], m),
         Line(m) /\ AtWork /\ Line(cur) =>
            /\ m.to = Broker => Before(cur, m)
            /\ m.to # Broker => Before(m, cur) \/ \A o : o = m.to => ~(StillToServe(o)')
  PROVE  OrderInv'
<1>0. \A x \in Messages : x.pid \in Publishers /\ Sent(x) => Sent(x)'
  BY SentStays DEF IndInv
<1>1. /\ Len(queue) \in Nat /\ Len(queue') = Len(queue) + 1
      /\ \A k \in 1 .. Len(queue) : queue'[k] = queue[k]
      /\ queue'[Len(queue) + 1] = m
  BY PutLast DEF IndInv, TypeInv, DataInv
<1>2. SentInv'
  <2>1. ASSUME NEW i \in 1 .. Len(queue'), NEW x, x = queue'[i], Line(x) PROVE Sent(x)'
    <3>1. CASE i = Len(queue) + 1
      BY <1>1, <2>1, <3>1
    <3>2. CASE i \in 1 .. Len(queue)
      BY <1>0, <1>1, <2>1, <3>2, Queued DEF IndInv, OrderInv, SentInv
    <3>. QED
      BY <1>1, <3>1, <3>2
  <2>2. Line(cur) => Sent(cur)'
    BY <1>0, Queued DEF IndInv, OrderInv, SentInv
  <2>3. \A s \in Subscribers : \A i \in 1 .. Len(received[s]) : Sent(received[s][i])'
    BY <1>0, Queued, Kinds DEF IndInv, OrderInv, SentInv
  <2>. QED
    BY <2>1, <2>2, <2>3 DEF SentInv, Sent, Line
<1>3. QueueOrder'
  <2>. SUFFICES ASSUME NEW i \in 1 .. Len(queue'), NEW j \in 1 .. Len(queue'),
                       Line(queue'[i]), Line(queue'[j]),
                       \/ queue'[i].to = queue'[j].to /\ i < j
                       \/ queue'[i].to # Broker /\ queue'[j].to = Broker
                PROVE  Before(queue'[i], queue'[j])
    BY DEF QueueOrder, Before, Line
  <2>1. CASE i \in 1 .. Len(queue) /\ j \in 1 .. Len(queue)
    BY <1>1, <2>1 DEF IndInv, OrderInv, QueueOrder
  <2>2. CASE i \in 1 .. Len(queue) /\ j = Len(queue) + 1
    BY <1>1, <2>2
  <2>3. CASE i = Len(queue) + 1 /\ j \in 1 .. Len(queue)
    BY <1>1, <2>3
  <2>4. CASE i = Len(queue) + 1 /\ j = Len(queue) + 1
    BY <1>1, <2>4
  <2>. QED
    BY <1>1, <2>1, <2>2, <2>3, <2>4
<1>4. ReceivedOrder'
  <2>. SUFFICES ASSUME NEW s \in Subscribers, NEW i \in 1 .. Len(received[s])
                PROVE  /\ \A j \in 1 .. Len(received[s]) : i < j => Before(received[s][i], received[s][j])
                       /\ \A j \in 1 .. Len(queue') : Line(queue'[j]) /\ queue'[j].to \in {s, Broker}
                             => Before(received[s][i], queue'[j])
    BY DEF ReceivedOrder, Before, Line
  <2>1. \A j \in 1 .. Len(received[s]) : i < j => Before(received[s][i], received[s][j])
    BY DEF IndInv, OrderInv, ReceivedOrder
  <2>2. \A j \in 1 .. Len(queue) : Line(queue[j]) /\ queue[j].to \in {s, Broker}
             => Before(received[s][i], queue[j])
    BY DEF IndInv, OrderInv, ReceivedOrder
  <2>3. \A j \in 1 .. Len(queue') : j \in 1 .. Len(queue) \/ j = Len(queue) + 1
    BY <1>1
  <2>. QED
    BY <1>1, <2>1, <2>2, <2>3
<1>5. AtWork' => AtWork /\ \A s : StillToServe(s)' => StillToServe(s)
  <2>1. /\ idx[Broker] \in Nat
        /\ pc'[Broker] = "b_forward" => idx'[Broker] \in Nat /\ idx'[Broker] >= idx[Broker]
    BY Processes DEF BrokerQuiet, IndInv, TypeInv, IdxInv
  <2>2. ASSUME AtWork', NEW s, StillToServe(s)' PROVE StillToServe(s)
    BY <2>1, <2>2, Queued DEF AtWork, BrokerQuiet, StillToServe, IndInv
  <2>. QED
    BY <2>2 DEF AtWork, BrokerQuiet
<1>6. CurrentOrder'
  <2>. SUFFICES ASSUME AtWork', Line(cur)
                PROVE  /\ \A j \in 1 .. Len(queue') : \A o : o = queue'[j].to /\ Line(queue'[j]) =>
                              /\ o = Broker => Before(cur, queue'[j])
                              /\ o # Broker /\ StillToServe(o)' => Before(queue'[j], cur)
                       /\ \A s \in Subscribers : \A i \in 1 .. Len(received[s]) :
                              StillToServe(s)' => Before(received[s][i], cur)
    BY DEF CurrentOrder, Before, Line, StillToServe
  <2>1. \A s \in Subscribers : \A i \in 1 .. Len(received[s]) :
            StillToServe(s)' => Before(received[s][i], cur)
    BY <1>5 DEF IndInv, OrderInv, CurrentOrder
  <2>2. ASSUME NEW j \in 1 .. Len(queue), NEW o, o = queue[j].to, Line(queue[j])
        PROVE  /\ o = Broker => Before(cur, queue[j])
               /\ o # Broker /\ StillToServe(o)' => Before(queue[j], cur)
    BY <1>5, <2>2 DEF IndInv, OrderInv, CurrentOrder
  <2>3. \A j \in 1 .. Len(queue') : j \in 1 .. Len(queue) \/ j = Len(queue) + 1
    BY <1>1
  <2>. QED
    BY <1>1, <1>5, <2>1, <2>2, <2>3
<1>. QED
  BY <1>2, <1>3, <1>4, <1>6 DEF OrderInv

\* A request to unsubscribe takes the place of the intention; one to subscribe has it before it.
LEMMA SendLeave ==
  ASSUME IndInv, NEW m \in Posted \union Delivered \union Asked, queue' = Append(queue, m),
         BrokerQuiet, UNCHANGED <<cur, subscribers>>, unsubbed' \subseteq unsubbed,
         \A s \in unsubbed' : pc'[s] # "failed" =>
            /\ pc[s] # "failed"
            /\ \A t \in Remaining(s) : \/ t \in Remaining(s)'
                                       \/ m.cmd = "unsubscribe" /\ m.pid = s /\ m.topic = t,
         m.cmd = "subscribe" => \A q : q = m.pid => m.topic \in Remaining(q)'
  PROVE  LeaveInv'
<1>1. /\ Len(queue) \in Nat /\ Len(queue') = Len(queue) + 1
      /\ \A k \in 1 .. Len(queue) : queue'[k] = queue[k]
      /\ queue'[Len(queue) + 1] = m
  BY PutLast DEF IndInv, TypeInv, DataInv
<1>. SUFFICES ASSUME NEW s \in unsubbed', pc'[s] # "failed"
              PROVE  /\ \A t \in ToSet(TopicsOf[s]) : IsListed(s, t)' =>
                          \/ LeavesAfter(s, t, 0)'
                          \/ /\ pc'[Broker] = "b_process" /\ cur.cmd = "unsubscribe"
                             /\ cur.pid = s /\ cur.topic = t
                     /\ \A k \in 1 .. Len(queue') : \A t : t = queue'[k].topic =>
                          (queue'[k].cmd = "subscribe" /\ queue'[k].pid = s => LeavesAfter(s, t, k)')
                     /\ pc'[Broker] = "b_process" /\ cur.cmd = "subscribe" /\ cur.pid = s
                          => LeavesAfter(s, cur.topic, 0)'
  BY DEF LeaveInv, LeavesAfter
<1>2. ASSUME NEW t, NEW k \in 0 .. Len(queue), LeavesAfter(s, t, k) PROVE LeavesAfter(s, t, k)'
  <2>1. CASE t \in Remaining(s)
    <3>1. CASE t \in Remaining(s)'
      BY <3>1 DEF LeavesAfter
    <3>2. CASE m.cmd = "unsubscribe" /\ m.pid = s /\ m.topic = t
      <4>1. Len(queue) + 1 \in 1 .. Len(queue') /\ Len(queue) + 1 > k
        BY <1>1
      <4>. QED
        BY <1>1, <3>2, <4>1 DEF LeavesAfter
    <3>. QED
      BY <2>1, <3>1, <3>2
  <2>2. ASSUME NEW j \in 1 .. Len(queue), j > k, queue[j].cmd = "unsubscribe",
               queue[j].pid = s, queue[j].topic = t
        PROVE  LeavesAfter(s, t, k)'
    <3>1. j \in 1 .. Len(queue') /\ queue'[j] = queue[j]
      BY <1>1
    <3>. QED
      BY <2>2, <3>1 DEF LeavesAfter
  <2>. QED
    BY <1>2, <2>1, <2>2 DEF LeavesAfter
<1>3. \A t : IsListed(s, t)' <=> IsListed(s, t)
  BY DEF IsListed
<1>4. s \in unsubbed /\ pc[s] # "failed" /\ 0 \in 0 .. Len(queue)
  BY <1>1
<1>5. \A t \in ToSet(TopicsOf[s]) : IsListed(s, t)' =>
          \/ LeavesAfter(s, t, 0)'
          \/ pc'[Broker] = "b_process" /\ cur.cmd = "unsubscribe" /\ cur.pid = s /\ cur.topic = t
  BY <1>2, <1>3, <1>4 DEF IndInv, LeaveInv, BrokerQuiet
<1>6. pc'[Broker] = "b_process" /\ cur.cmd = "subscribe" /\ cur.pid = s => LeavesAfter(s, cur.topic, 0)'
  BY <1>2, <1>4 DEF IndInv, LeaveInv, BrokerQuiet
<1>7. ASSUME NEW k \in 1 .. Len(queue'), NEW t, t = queue'[k].topic,
             queue'[k].cmd = "subscribe", queue'[k].pid = s
      PROVE  LeavesAfter(s, t, k)'
  <2>1. CASE k \in 1 .. Len(queue)
    <3>1. queue'[k] = queue[k] /\ k \in 0 .. Len(queue)
      BY <1>1, <2>1
    <3>2. LeavesAfter(s, t, k)
      BY <1>4, <1>7, <2>1, <3>1 DEF IndInv, LeaveInv
    <3>. QED
      BY <1>2, <3>1, <3>2
  <2>2. CASE k = Len(queue) + 1
    BY <1>1, <1>7, <2>2 DEF LeavesAfter
  <2>. QED
    BY <1>1, <2>1, <2>2
<1>. QED
  BY <1>5, <1>6, <1>7

LEMMA SendRequests ==
  ASSUME IndInv, NEW m \in Posted \union Delivered \union Asked, queue' = Append(queue, m),
         BrokerQuiet, UNCHANGED <<cur, subscribers>>, qstate = "live",
         \A s \in Subscribers : pc'[s] \in {"start", "s_sub"} \union Listening =>
            /\ pc[s] \in {"start", "s_sub"} \union Listening
            /\ m.pid = s => m.cmd = "subscribe"
            /\ pc'[s] \notin Listening => expected'[s] = {}
            /\ pc'[s] # "start" =>
                 \A k \in 1 .. Len(TopicsOf[s]) : (pc'[s] = "s_sub" => k < idx'[s]) =>
                    \/ pc[s] # "start" /\ (pc[s] = "s_sub" => k < idx[s])
                    \/ m.cmd = "subscribe" /\ m.pid = s /\ m.topic = TopicsOf[s][k]
  PROVE  RequestInv'
<1>1. /\ Len(queue) \in Nat /\ Len(queue') = Len(queue) + 1
      /\ \A k \in 1 .. Len(queue) : queue'[k] = queue[k]
      /\ queue'[Len(queue) + 1] = m
  BY PutLast DEF IndInv, TypeInv, DataInv
<1>. SUFFICES ASSUME NEW s \in Subscribers, pc'[s] \in {"start", "s_sub"} \union Listening
              PROVE  /\ pc'[s] # "start" =>
                          \A k \in 1 .. Len(TopicsOf[s]) :
                              (pc'[s] = "s_sub" => k < idx'[s]) => Requested(s, TopicsOf[s][k])'
                     /\ \A k \in 1 .. Len(queue') : queue'[k].pid = s => queue'[k].cmd = "subscribe"
                     /\ cur.pid = s => cur.cmd = "subscribe"
                     /\ pc'[s] \notin Listening => expected'[s] = {}
  BY DEF RequestInv, Requested, IsListed
<1>2. pc[s] \in {"start", "s_sub"} \union Listening
  OBVIOUS
<1>3. ASSUME NEW t, Requested(s, t) PROVE Requested(s, t)'
  <2>1. ASSUME NEW k \in 1 .. Len(queue), queue[k].cmd = "subscribe", queue[k].pid = s, queue[k].topic = t
        PROVE  Requested(s, t)'
    <3>1. k \in 1 .. Len(queue') /\ queue'[k] = queue[k]
      BY <1>1
    <3>. QED
      BY <2>1, <3>1 DEF Requested
  <2>. QED
    BY <1>3, <2>1 DEF Requested, IsListed, BrokerQuiet
<1>4. ASSUME pc'[s] # "start", NEW k \in 1 .. Len(TopicsOf[s]), pc'[s] = "s_sub" => k < idx'[s]
      PROVE  Requested(s, TopicsOf[s][k])'
  <2>1. CASE pc[s] # "start" /\ (pc[s] = "s_sub" => k < idx[s])
    BY <1>2, <1>3, <2>1 DEF IndInv, ListenInv, RequestInv
  <2>2. CASE m.cmd = "subscribe" /\ m.pid = s /\ m.topic = TopicsOf[s][k]
    <3>1. Len(queue) + 1 \in 1 .. Len(queue')
      BY <1>1
    <3>. QED
      BY <1>1, <2>2, <3>1 DEF Requested
  <2>. QED
    BY <1>4, <2>1, <2>2
<1>5. \A k \in 1 .. Len(queue) : queue[k].pid = s => queue[k].cmd = "subscribe"
  BY <1>2 DEF IndInv, ListenInv, RequestInv
<1>6. cur.pid = s => cur.cmd = "subscribe"
  BY <1>2 DEF IndInv, ListenInv, RequestInv
<1>. QED
  BY <1>1, <1>4, <1>5, <1>6

LEMMA SendBehind ==
  ASSUME IndInv, NEW m \in Posted \union Delivered \union Asked, queue' = Append(queue, m),
         BrokerQuiet, cur' = cur,
         \A s \in Subscribers : pc'[s] \in Listening =>
            \/ expected'[s] = {}
            \/ /\ pc[s] \in Listening
               /\ m.pid = s => m.cmd # "subscribe"
               /\ \A e \in expected'[s] : e \notin expected[s] =>
                    /\ \A k \in 1 .. Len(queue) : queue[k].to = Broker => ~IsIt(queue[k], e)
                    /\ AtWork => ~IsIt(cur, e)
  PROVE  BehindInv'
<1>1. /\ Len(queue) \in Nat /\ Len(queue') = Len(queue) + 1
      /\ \A k \in 1 .. Len(queue) : queue'[k] = queue[k]
      /\ queue'[Len(queue) + 1] = m
  BY PutLast DEF IndInv, TypeInv, DataInv
<1>2. AtWork' => AtWork
  BY DEF AtWork, BrokerQuiet
<1>. SUFFICES ASSUME NEW s \in Subscribers, pc'[s] \in Listening, NEW e \in expected'[s]
              PROVE  /\ \A k \in 1 .. Len(queue') : queue'[k].to = Broker /\ IsIt(queue'[k], e) => AllAsked(s, k)'
                     /\ AtWork' /\ IsIt(cur, e) => AllAsked(s, 0)'
  BY DEF BehindInv, IsIt, Line, AllAsked
<1>3. /\ pc[s] \in Listening /\ (m.pid = s => m.cmd # "subscribe")
      /\ e \notin expected[s] => /\ \A k \in 1 .. Len(queue) : queue[k].to = Broker => ~IsIt(queue[k], e)
                                 /\ AtWork => ~IsIt(cur, e)
  OBVIOUS
<1>4. ASSUME NEW k \in 0 .. Len(queue), AllAsked(s, k) PROVE AllAsked(s, k)'
  BY <1>1, <1>3, <1>4 DEF AllAsked
<1>5. \A k : k = Len(queue) + 1 => AllAsked(s, k)'
  BY <1>1 DEF AllAsked
<1>6. ASSUME NEW k \in 1 .. Len(queue'), queue'[k].to = Broker, IsIt(queue'[k], e) PROVE AllAsked(s, k)'
  <2>1. CASE k \in 1 .. Len(queue)
    <3>1. queue'[k] = queue[k] /\ k \in 0 .. Len(queue)
      BY <1>1, <2>1
    <3>2. e \in expected[s]
      BY <1>3, <1>6, <2>1, <3>1
    <3>3. AllAsked(s, k)
      BY <1>3, <1>6, <2>1, <3>1, <3>2 DEF IndInv, ListenInv, BehindInv
    <3>. QED
      BY <1>4, <3>1, <3>3
  <2>2. CASE k = Len(queue) + 1
    BY <1>5, <2>2
  <2>. QED
    BY <1>1, <2>1, <2>2
<1>7. ASSUME AtWork', IsIt(cur, e) PROVE AllAsked(s, 0)'
  <2>1. e \in expected[s] /\ AtWork /\ 0 \in 0 .. Len(queue)
    BY <1>1, <1>2, <1>3, <1>7
  <2>2. AllAsked(s, 0)
    BY <1>3, <1>7, <2>1 DEF IndInv, ListenInv, BehindInv
  <2>. QED
    BY <1>4, <2>1, <2>2
<1>. QED
  BY <1>6, <1>7

LEMMA SendFound ==
  ASSUME IndInv, NEW m \in Posted \union Delivered \union Asked, queue' = Append(queue, m),
         UNCHANGED <<qstate, cur, subscribers, received>>, exit_flag'[Broker] = exit_flag[Broker],
         NEW s \in Subscribers, NEW e \in expected'[s], pc'[s] \in Listening,
         qstate = "live", ~exit_flag[Broker],
         \/ e \in expected[s] /\ pc[s] \in Listening
         \/ m.to = Broker /\ IsIt(m, e),
         \/ pc'[Broker] = pc[Broker] /\ idx'[Broker] = idx[Broker]
         \/ IsIt(cur, e) /\ StillToServe(s) => (AtWork' /\ StillToServe(s)') \/ (m.to = s /\ IsIt(m, e))
  PROVE  Found(s, e)'
<1>1. /\ Len(queue) \in Nat /\ Len(queue') = Len(queue) + 1
      /\ \A k \in 1 .. Len(queue) : queue'[k] = queue[k]
      /\ queue'[Len(queue) + 1] = m
  BY PutLast DEF IndInv, TypeInv, DataInv
<1>2. CASE m.to \in {s, Broker} /\ IsIt(m, e)
  <2>1. Len(queue) + 1 \in 1 .. Len(queue')
    BY <1>1
  <2>. QED
    BY <1>1, <1>2, <2>1 DEF Found, IsIt, Line
<1>3. CASE e \in expected[s] /\ pc[s] \in Listening /\ ~(m.to \in {s, Broker} /\ IsIt(m, e))
  <2>1. Found(s, e)
    BY <1>3 DEF IndInv, ListenInv, FoundInv
  <2>2. ASSUME NEW i \in 1 .. Len(received[s]), IsIt(received[s][i], e) PROVE Found(s, e)'
    BY <2>2 DEF Found, IsIt, Line
  <2>3. ASSUME NEW i \in 1 .. Len(queue), queue[i].to \in {s, Broker}, IsIt(queue[i], e) PROVE Found(s, e)'
    <3>1. i \in 1 .. Len(queue') /\ queue'[i] = queue[i]
      BY <1>1
    <3>. QED
      BY <2>3, <3>1 DEF Found, IsIt, Line
  <2>4. ASSUME AtWork, IsIt(cur, e), StillToServe(s) PROVE Found(s, e)'
    <3>1. AtWork' /\ StillToServe(s)'
      BY <1>3, <2>4 DEF AtWork, StillToServe
    <3>. QED
      BY <2>4, <3>1 DEF Found, IsIt, Line
  <2>. QED
    BY <2>1, <2>2, <2>3, <2>4 DEF Found
<1>. QED
  BY <1>2, <1>3

\* What the four sends have in common.
LEMMA SendStep ==
  ASSUME IndInv, NEW m \in Posted \union Delivered \union Asked,
         qstate = "live", Len(queue) < QueueCap, queue' = Append(queue, m),
         PcInv', IdxInv', HistoryInv', OrderInv', LeaveInv', RequestInv', BehindInv', FoundInv',
         pc'[Broker] = pc[Broker], UNCHANGED <<qstate, lists, users>>
  PROVE  IndInv'
<1>1. queue' \in Seq(Posted \union Delivered \union Asked) /\ Len(queue') <= QueueCap
  BY PutLast, PubSubAssumption DEF IndInv, TypeInv, DataInv
<1>2. DataInv'
  BY <1>1 DEF IndInv, TypeInv, DataInv, lists, users
<1>3. QueueInv' /\ ArrayInv'
  BY DEF IndInv, QueueInv, ArrayInv, lists
<1>. QED
  BY <1>2, <1>3 DEF IndInv, TypeInv, ListenInv

LEMMA PublishStep ==
  ASSUME IndInv, NEW p \in Publishers, Publish(p)
  PROVE  IndInv'
<1>. PICK n \in {lines[p], 0} :
         /\ Send(p, "p_send", Message(Broker, "send", p, TopicOf[p], n))
         /\ expected' = [s \in Subscribers |->
              IF n # 0 /\ pc[s] \in Listening /\ TopicOf[p] \in ToSet(TopicsOf[s])
              THEN expected[s] \union {<<p, n>>}
              ELSE expected[s]]
  BY DEF Publish
<1>. DEFINE m == Message(Broker, "send", p, TopicOf[p], n)
<1>1. /\ pc[p] = "p_send" /\ qstate = "live" /\ Len(queue) < QueueCap
      /\ queue' = Append(queue, m) /\ asleep' = asleep \ {p}
  BY DEF Send
<1>2. /\ pc'[p] = "p_check" /\ \A q \in Procs : q # p => pc'[q] = pc[q]
      /\ pc' \in [Procs -> BrokerPcs \union PublisherPcs \union SubscriberPcs]
  BY PcMoves, Processes DEF IndInv, TypeInv, PcInv, Goto, Publish, PublisherPcs
<1>3. n \in 0 .. MaxLines
  BY Processes DEF IndInv, TypeInv, DataInv
<1>4. m.to = Broker /\ m.cmd = "send" /\ m.pid = p /\ m.topic = TopicOf[p] /\ m.n = n
  BY DEF Message
<1>5. m \in Posted
  BY <1>3, <1>4, Processes DEF Message, Messages, Posted, Pids
<1>. HIDE DEF m
<1>6. PcInv' /\ IdxInv'
  BY <1>1, <1>2, Processes DEF IndInv, TypeInv, PcInv, IdxInv, PublisherPcs, Publish
<1>7. HistoryInv'
  <2>1. expected \in [Subscribers -> SUBSET (Publishers \X (1 .. MaxLines))]
    BY DEF IndInv, TypeInv, HistoryInv
  <2>2. \A s \in Subscribers : expected'[s] \in SUBSET (Publishers \X (1 .. MaxLines))
    BY <1>3, <2>1
  <2>3. \A s \in Subscribers : \A e \in expected'[s] : TopicOf[e[1]] \in ToSet(TopicsOf[s])
    BY DEF IndInv, TypeInv, HistoryInv
  <2>. QED
    BY <2>2, <2>3 DEF IndInv, TypeInv, HistoryInv, Publish
<1>8. /\ \A q \in Publishers : PublisherQuiet(q)
      /\ \A s \in Subscribers : pc'[s] = pc[s] /\ idx'[s] = idx[s]
      /\ pc'[Broker] = pc[Broker] /\ idx'[Broker] = idx[Broker]
  BY <1>2, Processes DEF PublisherQuiet, users, Publish
<1>9. BrokerQuiet
  BY <1>8, Processes DEF BrokerQuiet, IndInv, TypeInv, IdxInv
<1>10. \A x \in Messages : x.pid = p /\ Sent(x) => Before(x, m)
  <2>1. lines[p] \in Nat
    BY Processes DEF IndInv, TypeInv, DataInv
  <2>. QED
    BY <1>1, <1>3, <1>4, <2>1 DEF Sent, Before, Messages
<1>11. OrderInv'
  <2>1. Sent(m)'
    <3>1. lines' = lines /\ lines[p] \in Nat
      BY Processes DEF users, Publish, IndInv, TypeInv, DataInv
    <3>. QED
      BY <1>2, <1>3, <1>4, <3>1 DEF Sent
  <2>2. \A x \in Messages : Sent(x) => Before(x, m)
    BY <1>4, <1>10 DEF Before
  <2>3. \A i \in 1 .. Len(queue) : Line(queue[i]) => Before(queue[i], m)
    BY <2>2, Queued DEF IndInv, OrderInv, SentInv
  <2>4. \A s \in Subscribers : \A i \in 1 .. Len(received[s]) : Before(received[s][i], m)
    BY <2>2, Queued, Kinds DEF IndInv, OrderInv, SentInv
  <2>5. Line(cur) => Before(cur, m)
    BY <2>2, Queued DEF IndInv, OrderInv, SentInv
  <2>. QED
    BY <1>1, <1>4, <1>5, <1>8, <1>9, <2>1, <2>3, <2>4, <2>5, SendOrder DEF Publish, lists
<1>12. LeaveInv'
  <2>1. \A s \in Subscribers : Remaining(s)' = Remaining(s) /\ pc'[s] = pc[s]
    BY <1>8 DEF Remaining
  <2>. QED
    BY <1>1, <1>4, <1>5, <1>9, <2>1, SendLeave DEF Publish, lists, IndInv, TypeInv, HistoryInv
<1>13. RequestInv'
  <2>1. \A s \in Subscribers : pc[s] \notin Listening => expected'[s] = expected[s]
    OBVIOUS
  <2>2. \A s \in Subscribers : m.pid # s
    BY <1>4, Processes
  <2>. QED
    BY <1>1, <1>5, <1>8, <1>9, <2>1, <2>2, SendRequests DEF Publish, lists, IndInv, ListenInv, RequestInv
<1>14. ASSUME NEW s \in Subscribers, NEW e \in expected'[s], e \notin expected[s]
       PROVE  n # 0 /\ IsIt(m, e) /\ \A x \in Messages : Sent(x) => ~IsIt(x, e)
  <2>1. n # 0 /\ e = <<p, n>>
    BY <1>14
  <2>2. lines[p] \in Nat /\ n = lines[p]
    BY <2>1, Processes DEF IndInv, TypeInv, DataInv
  <2>. QED
    BY <1>1, <1>4, <2>1, <2>2 DEF IsIt, Line, Sent
<1>15. BehindInv'
  <2>1. ASSUME NEW s \in Subscribers, NEW e \in expected'[s], e \notin expected[s]
        PROVE  /\ \A k \in 1 .. Len(queue) : ~IsIt(queue[k], e)
               /\ ~IsIt(cur, e)
    <3>1. \A x \in Messages : Sent(x) => ~IsIt(x, e)
      BY <1>14, <2>1
    <3>. QED
      BY <3>1, Queued DEF IndInv, OrderInv, SentInv, IsIt
  <2>2. \A s \in Subscribers : m.pid # s /\ (pc[s] \in Listening <=> pc'[s] \in Listening)
    BY <1>4, <1>8, Processes
  <2>. QED
    BY <1>1, <1>5, <1>9, <2>1, <2>2, SendBehind DEF Publish, lists
<1>16. FoundInv'
  <2>. SUFFICES ASSUME ~exit_flag[Broker], NEW s \in Subscribers, pc'[s] \in Listening, NEW e \in expected'[s]
                PROVE  Found(s, e)'
    BY DEF FoundInv, Publish
  <2>1. (e \in expected[s] /\ pc[s] \in Listening) \/ (m.to = Broker /\ IsIt(m, e))
    BY <1>4, <1>8, <1>14
  <2>. QED
    BY <1>1, <1>5, <1>8, <2>1, SendFound DEF Publish, lists
<1>. QED
  BY <1>1, <1>5, <1>6, <1>7, <1>8, <1>11, <1>12, <1>13, <1>15, <1>16, SendStep DEF Publish

LEMMA SubscribeStep ==
  ASSUME IndInv, NEW s \in Subscribers, Subscribe(s)
  PROVE  IndInv'
<1>. DEFINE m == Message(Broker, "subscribe", s, TopicsOf[s][idx[s]], 0)
<1>1. /\ pc[s] = "s_sub" /\ qstate = "live" /\ Len(queue) < QueueCap
      /\ queue' = Append(queue, m) /\ asleep' = asleep \ {s}
  BY DEF Subscribe, Send
<1>2. idx[s] \in 1 .. Len(TopicsOf[s]) /\ idx \in [Procs -> Nat \ {0}]
  BY <1>1, Processes DEF IndInv, TypeInv, IdxInv
<1>3. m.to = Broker /\ m.cmd = "subscribe" /\ m.pid = s /\ m.topic = TopicsOf[s][idx[s]] /\ m.n = 0
  BY DEF Message
<1>4. m \in Asked /\ ~Line(m)
  <2>1. TopicsOf[s][idx[s]] \in ToSet(TopicsOf[s]) /\ TopicsOf[s][idx[s]] \in Topics
    BY <1>2, Processes
  <2>. QED
    BY <1>3, <2>1, Processes DEF Message, Messages, Asked, Pids, Line
<1>. HIDE DEF m
<1>5. /\ \/ idx[s] < Len(TopicsOf[s]) /\ pc'[s] = "s_sub" /\ idx'[s] = idx[s] + 1
         \/ idx[s] = Len(TopicsOf[s]) /\ pc'[s] = "s_check" /\ idx'[s] = 1
      /\ \A q \in Procs : q # s => pc'[q] = pc[q] /\ idx'[q] = idx[q]
      /\ pc' \in [Procs -> BrokerPcs \union PublisherPcs \union SubscriberPcs]
      /\ idx' \in [Procs -> Nat \ {0}]
  <2>1. Len(TopicsOf[s]) \in Nat /\ s \in Procs /\ idx[s] \in Nat
    BY <1>2, Processes
  <2>2. CASE idx[s] < Len(TopicsOf[s])
    <3>1. idx' = [idx EXCEPT ![s] = idx[s] + 1] /\ Goto(s, "s_sub")
      BY <2>2 DEF Subscribe
    <3>2. pc'[s] = "s_sub" /\ \A q \in Procs : q # s => pc'[q] = pc[q]
      BY <2>1, <3>1, PcMoves DEF IndInv
    <3>3. pc' \in [Procs -> BrokerPcs \union PublisherPcs \union SubscriberPcs]
      BY <3>1 DEF Goto, IndInv, TypeInv, PcInv, SubscriberPcs
    <3>4. /\ idx'[s] = idx[s] + 1 /\ \A q \in Procs : q # s => idx'[q] = idx[q]
          /\ idx' \in [Procs -> Nat \ {0}]
      BY <1>2, <2>1, <3>1
    <3>. QED
      BY <2>2, <3>2, <3>3, <3>4
  <2>3. CASE ~(idx[s] < Len(TopicsOf[s]))
    <3>1. idx' = [idx EXCEPT ![s] = 1] /\ Goto(s, "s_check")
      BY <2>3 DEF Subscribe
    <3>2. pc'[s] = "s_check" /\ \A q \in Procs : q # s => pc'[q] = pc[q]
      BY <2>1, <3>1, PcMoves DEF IndInv
    <3>3. pc' \in [Procs -> BrokerPcs \union PublisherPcs \union SubscriberPcs]
      BY <3>1 DEF Goto, IndInv, TypeInv, PcInv, SubscriberPcs
    <3>4. /\ idx'[s] = 1 /\ \A q \in Procs : q # s => idx'[q] = idx[q]
          /\ idx' \in [Procs -> Nat \ {0}]
      BY <1>2, <2>1, <3>1
    <3>5. idx[s] = Len(TopicsOf[s])
      BY <1>2, <2>1, <2>3
    <3>. QED
      BY <3>2, <3>3, <3>4, <3>5
  <2>. QED
    BY <2>2, <2>3
<1>6. PcInv' /\ IdxInv'
  <2>1. PcInv'
    <3>1. pc'[s] \in SubscriberPcs
      BY <1>5 DEF SubscriberPcs
    <3>2. \A q \in Procs : q # s => pc'[q] = pc[q]
      BY <1>5
    <3>. QED
      BY <1>1, <1>5, <3>1, <3>2, Processes DEF IndInv, TypeInv, PcInv, Subscribe
  <2>2. /\ pc'[s] \in {"start"} \union Listening => idx'[s] = 1
        /\ pc'[s] = "s_sub" => idx'[s] <= Len(TopicsOf[s])
    BY <1>2, <1>5, Processes DEF Listening
  <2>3. \A r \in Subscribers : r # s => pc'[r] = pc[r] /\ idx'[r] = idx[r]
    BY <1>5, Processes
  <2>4. IdxInv'
    BY <1>5, <2>2, <2>3 DEF IndInv, TypeInv, IdxInv
  <2>. QED
    BY <2>1, <2>4
<1>7. HistoryInv'
  BY DEF IndInv, TypeInv, HistoryInv, Subscribe, history
<1>8. /\ \A q \in Publishers : PublisherQuiet(q)
      /\ pc'[Broker] = pc[Broker] /\ idx'[Broker] = idx[Broker]
  BY <1>5, Processes DEF PublisherQuiet, users, Subscribe
<1>9. BrokerQuiet
  BY <1>8, Processes DEF BrokerQuiet, IndInv, TypeInv, IdxInv
<1>10. OrderInv'
  BY <1>1, <1>4, <1>8, <1>9, SendOrder DEF Subscribe, lists, history
<1>11. Remaining(s)' = ToSet(TopicsOf[s]) /\ Remaining(s) = ToSet(TopicsOf[s])
  BY <1>1, <1>5, Processes DEF Remaining, Listening
<1>12. LeaveInv'
  <2>1. ASSUME NEW r \in Subscribers
        PROVE  Remaining(r)' = Remaining(r) /\ (pc'[r] = "failed" <=> pc[r] = "failed")
    <3>1. CASE r = s
      BY <1>1, <1>5, <1>11, <3>1
    <3>2. CASE r # s
      <4>1. pc'[r] = pc[r] /\ idx'[r] = idx[r]
        BY <1>5, <3>2, Processes
      <4>. QED
        BY <4>1 DEF Remaining
    <3>. QED
      BY <3>1, <3>2
  <2>2. ASSUME NEW q, q = m.pid PROVE m.topic \in Remaining(q)'
    <3>1. m.topic \in ToSet(TopicsOf[s])
      BY <1>3, <1>4 DEF Asked
    <3>2. q = s
      BY <1>3, <2>2
    <3>. QED
      BY <1>11, <3>1, <3>2
  <2>3. unsubbed' = unsubbed /\ unsubbed \subseteq Subscribers
    BY DEF Subscribe, history, IndInv, TypeInv, HistoryInv
  <2>4. UNCHANGED <<cur, subscribers>>
    BY DEF Subscribe, lists
  <2>. QED
    BY <1>1, <1>4, <1>9, <2>1, <2>2, <2>3, <2>4, SendLeave
<1>13. expected' = expected /\ expected[s] = {}
  BY <1>1 DEF IndInv, ListenInv, RequestInv, Listening, Subscribe, history
<1>14. RequestInv'
  <2>1. ASSUME NEW r \in Subscribers, pc'[r] \in {"start", "s_sub"} \union Listening
        PROVE  /\ pc[r] \in {"start", "s_sub"} \union Listening
               /\ m.pid = r => m.cmd = "subscribe"
               /\ pc'[r] \notin Listening => expected'[r] = {}
               /\ pc'[r] # "start" =>
                   \A k \in 1 .. Len(TopicsOf[r]) : (pc'[r] = "s_sub" => k < idx'[r]) =>
                      \/ pc[r] # "start" /\ (pc[r] = "s_sub" => k < idx[r])
                      \/ m.cmd = "subscribe" /\ m.pid = r /\ m.topic = TopicsOf[r][k]
    <3>1. CASE r # s
      <4>1. pc'[r] = pc[r] /\ idx'[r] = idx[r] /\ expected'[r] = expected[r]
        BY <1>5, <1>13, <3>1, Processes
      <4>. QED
        BY <2>1, <4>1, <3>1, <1>3 DEF IndInv, ListenInv, RequestInv
    <3>2. CASE r = s
      <4>1. \A k \in 1 .. Len(TopicsOf[s]) : (pc'[s] = "s_sub" => k < idx'[s]) => k < idx[s] \/ k = idx[s]
        BY <1>2, <1>5, Processes
      <4>. QED
        BY <1>1, <1>3, <1>13, <3>2, <4>1
    <3>. QED
      BY <3>1, <3>2
  <2>. QED
    BY <1>1, <1>4, <1>9, <2>1, SendRequests DEF Subscribe, lists
<1>15. \A r \in Subscribers : pc'[r] \in Listening => expected'[r] = {} \/ (pc[r] \in Listening /\ r # s)
  BY <1>5, <1>13, Processes
<1>16. BehindInv'
  BY <1>1, <1>3, <1>4, <1>9, <1>13, <1>15, SendBehind DEF Subscribe, lists
<1>17. FoundInv'
  <2>. SUFFICES ASSUME ~exit_flag[Broker], NEW r \in Subscribers, pc'[r] \in Listening, NEW e \in expected'[r]
                PROVE  Found(r, e)'
    BY DEF FoundInv, Subscribe
  <2>1. e \in expected[r] /\ pc[r] \in Listening
    BY <1>13, <1>15
  <2>. QED
    BY <1>1, <1>4, <1>8, <2>1, SendFound DEF Subscribe, lists, history
<1>. QED
  BY <1>1, <1>4, <1>6, <1>7, <1>8, <1>10, <1>12, <1>14, <1>16, <1>17, SendStep DEF Subscribe

\* A request to unsubscribe that goes out stands for the topic it names.
LEMMA UnsubscribeSends ==
  ASSUME IndInv, NEW s \in Subscribers, idx[s] <= Len(TopicsOf[s]), unsubbed' = unsubbed,
         Send(s, "s_unsub", Message(Broker, "unsubscribe", s, TopicsOf[s][idx[s]], 0)),
         idx' = [idx EXCEPT ![s] = @ + 1], Goto(s, "s_unsub"),
         UNCHANGED <<exit_flag, qstate, lists, users, received, expected>>
  PROVE  IndInv'
<1>. DEFINE m == Message(Broker, "unsubscribe", s, TopicsOf[s][idx[s]], 0)
<1>1. /\ pc[s] = "s_unsub" /\ qstate = "live" /\ Len(queue) < QueueCap
      /\ queue' = Append(queue, m) /\ asleep' = asleep \ {s}
  BY DEF Send
<1>2. idx[s] \in 1 .. Len(TopicsOf[s]) /\ idx \in [Procs -> Nat \ {0}]
  BY Processes DEF IndInv, TypeInv, IdxInv
<1>3. m.to = Broker /\ m.cmd = "unsubscribe" /\ m.pid = s /\ m.topic = TopicsOf[s][idx[s]] /\ m.n = 0
  BY DEF Message
<1>4. m \in Asked /\ ~Line(m)
  <2>1. TopicsOf[s][idx[s]] \in ToSet(TopicsOf[s]) /\ TopicsOf[s][idx[s]] \in Topics
    BY <1>2, Processes
  <2>. QED
    BY <1>3, <2>1, Processes DEF Message, Messages, Asked, Pids, Line
<1>. HIDE DEF m
<1>5. /\ pc'[s] = "s_unsub" /\ idx'[s] = idx[s] + 1
      /\ \A q \in Procs : q # s => pc'[q] = pc[q] /\ idx'[q] = idx[q]
      /\ pc' = pc /\ idx' \in [Procs -> Nat \ {0}]
  BY <1>1, <1>2, Processes DEF IndInv, TypeInv, PcInv, Goto
<1>6. PcInv' /\ IdxInv'
  BY <1>1, <1>2, <1>5, Processes DEF IndInv, TypeInv, PcInv, IdxInv, Listening
<1>7. HistoryInv'
  BY DEF IndInv, TypeInv, HistoryInv
<1>8. /\ \A q \in Publishers : PublisherQuiet(q)
      /\ pc'[Broker] = pc[Broker] /\ idx'[Broker] = idx[Broker]
  BY <1>5, Processes DEF PublisherQuiet, users
<1>9. BrokerQuiet
  BY <1>8, Processes DEF BrokerQuiet, IndInv, TypeInv, IdxInv
<1>10. OrderInv'
  BY <1>1, <1>4, <1>8, <1>9, SendOrder DEF lists
<1>11. LeaveInv'
  <2>1. ASSUME NEW r \in Subscribers, NEW t \in Remaining(r)
        PROVE  t \in Remaining(r)' \/ (m.cmd = "unsubscribe" /\ m.pid = r /\ m.topic = t)
    <3>1. CASE r # s
      BY <1>5, <3>1, <2>1, Processes DEF Remaining
    <3>2. CASE r = s
      <4>1. PICK k \in 1 .. Len(TopicsOf[s]) : k >= idx[s] /\ t = TopicsOf[s][k]
        BY <1>1, <2>1, <3>2 DEF Remaining, Listening
      <4>2. k = idx[s] \/ k >= idx'[s]
        BY <1>2, <1>5, <4>1, Processes
      <4>. QED
        BY <1>3, <1>5, <3>2, <4>1, <4>2 DEF Remaining
    <3>. QED
      BY <3>1, <3>2
  <2>. QED
    BY <1>1, <1>3, <1>4, <1>5, <1>9, <2>1, SendLeave DEF lists, IndInv, TypeInv, HistoryInv
<1>12. \A r \in Subscribers : pc'[r] \in {"start", "s_sub"} \union Listening =>
          r # s /\ pc'[r] = pc[r] /\ idx'[r] = idx[r]
  BY <1>5, Processes DEF Listening
<1>13. RequestInv'
  BY <1>1, <1>3, <1>4, <1>9, <1>12, SendRequests DEF lists, IndInv, ListenInv, RequestInv
<1>14. BehindInv'
  BY <1>1, <1>3, <1>4, <1>9, <1>12, SendBehind DEF lists, Listening
<1>15. FoundInv'
  <2>. SUFFICES ASSUME ~exit_flag[Broker], NEW r \in Subscribers, pc'[r] \in Listening, NEW e \in expected'[r]
                PROVE  Found(r, e)'
    BY DEF FoundInv
  <2>1. e \in expected[r] /\ pc[r] \in Listening
    BY <1>12
  <2>. QED
    BY <1>1, <1>4, <1>8, <2>1, SendFound DEF lists
<1>. QED
  BY <1>1, <1>4, <1>6, <1>7, <1>8, <1>10, <1>11, <1>13, <1>14, <1>15, SendStep

LEMMA UnsubscribeStep ==
  ASSUME IndInv, NEW s \in Subscribers, Unsubscribe(s)
  PROVE  IndInv'
<1>. USE DEF Unsubscribe
<1>1. CASE Send(s, "s_unsub", Message(Broker, "unsubscribe", s, TopicsOf[s][idx[s]], 0)) /\ UNCHANGED unsubbed
  BY <1>1, UnsubscribeSends
<1>2. CASE QueueRemoved(s, "s_unsub") /\ unsubbed' = unsubbed \ {s} /\ UNCHANGED queue
  <2>1. pc'[s] = "s_unsub" /\ pc[s] = "s_unsub"
    BY <1>2, PcMoves, Processes DEF IndInv, QueueRemoved
  <2>2. SubscriberQuiet(s)
    BY <1>2, <2>1 DEF SubscriberQuiet, Listening
  <2>3. idx' \in [Procs -> Nat \ {0}] /\ \A q \in Procs \ {s} : idx'[q] = idx[q]
    <3>1. idx \in [Procs -> Nat \ {0}] /\ s \in Procs /\ idx[s] + 1 \in Nat \ {0}
      BY Processes DEF IndInv, TypeInv, IdxInv
    <3>. QED
      BY <3>1
  <2>. QED
    BY <1>2, <2>2, <2>3, Processes, SubscriberMoves DEF SubscriberPcs, Listening, QueueRemoved
<1>. QED
  BY <1>1, <1>2

LEMMA ForwardBlocksStep ==
  ASSUME IndInv, ForwardBlocks
  PROVE  IndInv'
BY Processes, SleepStep DEF ForwardBlocks, SendBlocks

LEMMA SendBlocksStep ==
  ASSUME IndInv, NEW p \in Procs, NEW at, SendBlocks(p, at)
  PROVE  IndInv'
BY SleepStep DEF SendBlocks

LEMMA ReceiveBlocksStep ==
  ASSUME IndInv, NEW p \in Procs, NEW at, ReceiveBlocks(p, at)
  PROVE  IndInv'
BY SleepStep DEF ReceiveBlocks

\* A copy of the line in the broker's hand follows what its reader got before, and the
\* broker passes the entry.
LEMMA ForwardSends ==
  ASSUME IndInv, pc[Broker] = "b_forward", NEW i, i = idx[Broker], i <= Len(subscribers),
         cur.topic \in subscribers[i].topics, NEW w, w = subscribers[i].pid, NEW m, m = ForwardTo(w),
         Send(Broker, "b_forward", m), idx' = [idx EXCEPT ![Broker] = @ + 1], pc' = pc,
         UNCHANGED <<exit_flag, qstate, lists, users, history>>
  PROVE  IndInv'
<1>1. /\ qstate = "live" /\ Len(queue) < QueueCap
      /\ queue' = Append(queue, m) /\ asleep' = asleep \ {Broker}
  BY DEF Send
<1>2. idx \in [Procs -> Nat \ {0}] /\ i \in 1 .. Len(subscribers)
  <2>1. idx \in [Procs -> Nat \ {0}]
    BY DEF IndInv, TypeInv, IdxInv
  <2>2. i \in Nat \ {0} /\ Len(subscribers) \in Nat
    BY <2>1, Processes, Queued DEF IndInv
  <2>. QED
    BY <2>1, <2>2
<1>3. cur \in Posted /\ cur.n # 0 /\ AtWork /\ Line(cur)
  BY Kinds DEF IndInv, TypeInv, DataInv, AtWork, Line
<1>4. w \in Subscribers /\ w # Broker /\ cur.topic \in ToSet(TopicsOf[w])
  BY <1>2, Queued, Processes DEF IndInv
<1>5. m.to = w /\ m.cmd = "send" /\ m.pid = cur.pid /\ m.topic = cur.topic /\ m.n = cur.n
  BY DEF ForwardTo, Message
<1>6. m \in Delivered
  BY <1>3, <1>4, <1>5, Kinds, Processes DEF ForwardTo, Message, Messages, Delivered, Pids
<1>7. StillToServe(w)
  BY <1>2 DEF StillToServe
<1>8. /\ idx'[Broker] = i + 1 /\ \A q \in Procs : q # Broker => idx'[q] = idx[q]
      /\ idx' \in [Procs -> Nat \ {0}]
  BY <1>2, Processes
<1>9. PcInv' /\ IdxInv' /\ HistoryInv'
  <2>1. PcInv' /\ HistoryInv'
    BY <1>1 DEF IndInv, TypeInv, PcInv, HistoryInv, history
  <2>2. IdxInv'
    BY <1>8, Processes DEF IndInv, TypeInv, IdxInv
  <2>. QED
    BY <2>1, <2>2
<1>10. BrokerQuiet
  BY <1>2, <1>8 DEF BrokerQuiet
<1>11. \A q \in Publishers : PublisherQuiet(q)
  BY DEF PublisherQuiet, users
<1>12. \A s \in Subscribers : pc'[s] = pc[s] /\ idx'[s] = idx[s]
  BY <1>8, Processes
<1>13. OrderInv'
  <2>1. Sent(m)'
    BY <1>3, <1>5 DEF Sent, users, IndInv, OrderInv, SentInv
  <2>2. /\ \A x : Before(x, cur) => Before(x, m)
        /\ \A x : Before(cur, x) => Before(m, x)
    BY <1>5 DEF Before
  <2>3. \A k \in 1 .. Len(queue) : Line(queue[k]) =>
            /\ queue[k].to = w => Before(queue[k], m)
            /\ queue[k].to = Broker => Before(m, queue[k])
    BY <1>3, <1>4, <1>7, <2>2 DEF IndInv, OrderInv, CurrentOrder
  <2>4. \A k \in 1 .. Len(received[w]) : Before(received[w][k], m)
    BY <1>3, <1>4, <1>7, <2>2 DEF IndInv, OrderInv, CurrentOrder
  <2>5. ~(StillToServe(w)')
    <3>1. \A j \in 1 .. Len(subscribers) : subscribers[j].pid = w => j = i
      BY <1>2 DEF IndInv, ArrayInv
    <3>2. UNCHANGED subscribers /\ pc'[Broker] # "b_process"
      BY DEF lists
    <3>3. \A j \in 1 .. Len(subscribers) : j = i => ~(j >= idx'[Broker])
      BY <1>2, <1>8
    <3>. QED
      BY <3>1, <3>2, <3>3 DEF StillToServe
  <2>6. \A o : o = m.to => ~(StillToServe(o)')
    BY <1>5, <2>5
  <2>. QED
    BY <1>1, <1>4, <1>5, <1>6, <1>10, <1>11, <2>1, <2>3, <2>4, <2>6, SendOrder DEF lists, history
<1>14. LeaveInv'
  <2>1. \A s \in Subscribers : Remaining(s)' = Remaining(s)
    BY <1>12 DEF Remaining
  <2>2. unsubbed' = unsubbed /\ unsubbed \subseteq Subscribers
    BY DEF history, IndInv, TypeInv, HistoryInv
  <2>. QED
    BY <1>1, <1>5, <1>6, <1>10, <1>12, <2>1, <2>2, SendLeave DEF lists
<1>15. expected' = expected /\ \A s \in Subscribers : m.pid # s
  BY <1>6, Kinds, Processes DEF history
<1>16. RequestInv'
  BY <1>1, <1>6, <1>10, <1>12, <1>15, SendRequests DEF lists, IndInv, ListenInv, RequestInv
<1>17. BehindInv'
  BY <1>1, <1>6, <1>10, <1>12, <1>15, SendBehind DEF lists
<1>18. FoundInv'
  <2>. SUFFICES ASSUME ~exit_flag[Broker], NEW s \in Subscribers, pc'[s] \in Listening, NEW e \in expected'[s]
                PROVE  Found(s, e)'
    BY DEF FoundInv
  <2>1. ASSUME IsIt(cur, e), StillToServe(s)
        PROVE  (AtWork' /\ StillToServe(s)') \/ (m.to = s /\ IsIt(m, e))
    <3>1. PICK j \in 1 .. Len(subscribers) : j >= i /\ subscribers[j].pid = s
      BY <2>1 DEF StillToServe
    <3>2. CASE j = i
      BY <1>5, <2>1, <3>1, <3>2 DEF IsIt, Line
    <3>3. CASE j # i
      <4>1. j >= idx'[Broker]
        BY <1>2, <1>8, <3>1, <3>3
      <4>2. UNCHANGED subscribers
        BY DEF lists
      <4>. QED
        BY <3>1, <4>1, <4>2 DEF AtWork, StillToServe
    <3>. QED
      BY <3>2, <3>3
  <2>2. e \in expected[s] /\ pc[s] \in Listening
    BY <1>12, <1>15
  <2>. QED
    BY <1>1, <1>6, <2>1, <2>2, SendFound DEF lists, history
<1>. QED
  BY <1>1, <1>6, <1>9, <1>13, <1>14, <1>16, <1>17, <1>18, SendStep

LEMMA ForwardStep ==
  ASSUME IndInv, Forward
  PROVE  IndInv'
<1>1. pc' = pc
  BY DEF Forward, Send, Goto, IndInv, TypeInv, PcInv
<1>. QED
  BY <1>1, ForwardSends DEF Forward, Send

-----------------------------------------------------------------------------
(* The broker's work on a request *)

\* A subscriber that counts on the line in the broker's hand is on the list for it: all
\* its subscriptions came before.
LEMMA Counted ==
  ASSUME IndInv, qstate = "live", AtWork, NEW s \in Subscribers, pc[s] \in Listening,
         NEW e \in expected[s], IsIt(cur, e)
  PROVE  IsListed(s, cur.topic)
<1>1. Line(cur) /\ cur.pid = e[1]
  BY DEF IsIt
<1>2. cur.topic = TopicOf[e[1]] /\ cur.cmd = "send"
  BY <1>1, Kinds, Queued DEF IndInv, Line
<1>3. cur.topic \in ToSet(TopicsOf[s])
  BY <1>2 DEF IndInv, TypeInv, HistoryInv
<1>4. PICK k \in 1 .. Len(TopicsOf[s]) : cur.topic = TopicsOf[s][k]
  BY <1>3, Processes
<1>5. Requested(s, cur.topic)
  BY <1>4 DEF IndInv, ListenInv, RequestInv, Listening
<1>6. AllAsked(s, 0)
  BY DEF IndInv, ListenInv, BehindInv
<1>7. \A j \in 1 .. Len(queue) : ~(queue[j].cmd = "subscribe" /\ queue[j].pid = s)
  BY <1>6, Queued DEF AllAsked, IndInv
<1>. QED
  BY <1>2, <1>5, <1>7 DEF Requested

LEMMA ForwardSkipStep ==
  ASSUME IndInv, ForwardSkip
  PROVE  IndInv'
<1>. USE DEF ForwardSkip
<1>1. /\ idx \in [Procs -> Nat \ {0}] /\ Len(subscribers) \in Nat /\ idx[Broker] \in Nat
      /\ pc \in [Procs -> BrokerPcs \union PublisherPcs \union SubscriberPcs]
  BY Queued, Processes DEF IndInv, TypeInv, PcInv, IdxInv
<1>2. \/ /\ idx[Broker] > Len(subscribers) /\ pc'[Broker] = "b_check" /\ idx' = idx
      \/ /\ idx[Broker] <= Len(subscribers) /\ cur.topic \notin subscribers[idx[Broker]].topics
         /\ pc' = pc /\ idx'[Broker] = idx[Broker] + 1
  BY <1>1, PcMoves, Processes DEF IndInv
<1>3. /\ idx' \in [Procs -> Nat \ {0}] /\ \A q \in Procs : q # Broker => idx'[q] = idx[q] /\ pc'[q] = pc[q]
      /\ pc' \in [Procs -> BrokerPcs \union PublisherPcs \union SubscriberPcs]
  <2>1. CASE idx[Broker] > Len(subscribers)
    <3>1. Goto(Broker, "b_check") /\ idx' = idx
      BY <2>1
    <3>. QED
      BY <1>1, <3>1, PcMoves, Processes DEF IndInv, Goto, BrokerPcs
  <2>2. CASE ~(idx[Broker] > Len(subscribers))
    BY <1>1, <2>2, Processes
  <2>. QED
    BY <2>1, <2>2
<1>4. PcInv' /\ IdxInv'
  <2>1. pc'[Broker] \in BrokerPcs
    BY <1>2 DEF BrokerPcs
  <2>. QED
    BY <1>1, <1>3, <2>1, Processes DEF IndInv, TypeInv, PcInv, IdxInv
<1>5. BrokerQuiet
  BY <1>1, <1>2 DEF BrokerQuiet
<1>6. \A q \in Publishers : PublisherQuiet(q)
  BY <1>3, Processes DEF PublisherQuiet, users
<1>7. ASSUME NEW s \in Subscribers PROVE SubscriberQuiet(s) /\ pc'[s] = pc[s]
  <2>1. pc'[s] = pc[s] /\ idx'[s] = idx[s] /\ unsubbed' = unsubbed
    BY <1>3, Processes DEF history
  <2>. QED
    BY <2>1 DEF SubscriberQuiet, Remaining
<1>8. UNCHANGED <<queue, cur, subscribers, received, expected, qstate>> /\ exit_flag' = exit_flag
  BY DEF lists, history
<1>9. FoundInv'
  <2>. SUFFICES ASSUME qstate = "live", ~exit_flag[Broker], NEW s \in Subscribers, pc[s] \in Listening,
                       NEW e \in expected[s]
                PROVE  Found(s, e)'
    BY <1>7, <1>8 DEF FoundInv
  <2>1. Found(s, e)
    BY DEF IndInv, ListenInv, FoundInv
  <2>2. CASE AtWork /\ IsIt(cur, e) /\ StillToServe(s)
    <3>1. PICK j \in 1 .. Len(subscribers) : j >= idx[Broker] /\ subscribers[j].pid = s
      BY <2>2 DEF StillToServe
    <3>2. PICK i \in 1 .. Len(subscribers) : subscribers[i].pid = s /\ cur.topic \in subscribers[i].topics
      BY <2>2, Counted DEF IsListed
    <3>3. i = j
      BY <3>1, <3>2 DEF IndInv, ArrayInv
    <3>4. j # idx[Broker] /\ pc' = pc /\ idx'[Broker] = idx[Broker] + 1
      BY <1>1, <1>2, <3>1, <3>2, <3>3
    <3>5. j >= idx'[Broker]
      BY <1>1, <3>1, <3>4
    <3>6. AtWork' /\ StillToServe(s)' /\ IsIt(cur, e)'
      BY <1>8, <2>2, <3>1, <3>4, <3>5 DEF AtWork, StillToServe, IsIt, Line
    <3>. QED
      BY <3>6 DEF Found
  <2>3. CASE ~(AtWork /\ IsIt(cur, e) /\ StillToServe(s))
    BY <1>8, <2>1, <2>3 DEF Found, IsIt, Line
  <2>. QED
    BY <2>2, <2>3
<1>10. /\ lines' \in [Publishers -> 0 .. MaxLines] /\ signals' \in 0 .. MaxSignals
       /\ unsubbed' \subseteq unsubbed
       /\ qstate = "none" => \A s \in Subscribers : pc'[s] \in {"start", "refused"}
  BY <1>7 DEF IndInv, TypeInv, DataInv, QueueInv, users, history
<1>11. /\ pc'[Broker] = "start" <=> pc[Broker] = "start"
       /\ pc'[Broker] = "done" <=> pc[Broker] = "done"
  BY <1>2
<1>. QED
  BY <1>4, <1>5, <1>6, <1>7, <1>8, <1>9, <1>10, <1>11, QuietStep

\* The topics of the list after one of s was added.
LEMMA AddEntry ==
  ASSUME IndInv, NEW s \in Subscribers, NEW t \in ToSet(TopicsOf[s]), add_subscription(s, t)
  PROVE  /\ subscribers' \in Seq(Entries) /\ ArrayInv'
         /\ \A q, u : IsListed(q, u)' <=> IsListed(q, u) \/ (q = s /\ u = t)
<1>1. /\ subscribers \in Seq(Entries) /\ Len(subscribers) \in Nat
      /\ \A i \in 1 .. Len(subscribers) : /\ subscribers[i] \in Entries
                                          /\ subscribers[i].topics \subseteq ToSet(TopicsOf[subscribers[i].pid])
      /\ DOMAIN subscribers = 1 .. Len(subscribers) /\ t \in Topics
  BY Queued, Processes, LenProperties DEF IndInv, TypeInv, DataInv
<1>2. CASE Known(s) = {}
  <2>. DEFINE e == [pid |-> s, topics |-> {t}]
  <2>1. e \in Entries /\ e.pid = s /\ e.topics = {t}
    BY <1>1 DEF Entries
  <2>2. subscribers' = Append(subscribers, e)
    BY <1>2 DEF add_subscription
  <2>. HIDE DEF e
  <2>3. /\ subscribers' \in Seq(Entries) /\ Len(subscribers') = Len(subscribers) + 1
        /\ \A i \in 1 .. Len(subscribers) : subscribers'[i] = subscribers[i]
        /\ subscribers'[Len(subscribers) + 1] = e
    BY <1>1, <2>1, <2>2, PutLast
  <2>4. \A i \in 1 .. Len(subscribers) : subscribers[i].pid # s
    BY <1>1, <1>2 DEF Known
  <2>5. ArrayInv'
    <3>1. \A i, j \in 1 .. Len(subscribers) : /\ subscribers[i].topics # {}
                                              /\ subscribers[i].pid = subscribers[j].pid => i = j
      BY DEF ArrayInv, IndInv
    <3>2. \A i \in 1 .. Len(subscribers') :
            \/ i \in 1 .. Len(subscribers) /\ subscribers'[i] = subscribers[i]
            \/ i = Len(subscribers) + 1 /\ subscribers'[i] = e
      BY <1>1, <2>3
    <3>3. \A i \in 1 .. Len(subscribers') : subscribers'[i].topics # {}
      BY <2>1, <3>1, <3>2
    <3>4. ASSUME NEW i \in 1 .. Len(subscribers'), NEW j \in 1 .. Len(subscribers'),
                 subscribers'[i].pid = subscribers'[j].pid
          PROVE  i = j
      <4>1. CASE i \in 1 .. Len(subscribers) /\ subscribers'[i] = subscribers[i]
        BY <2>1, <2>4, <3>1, <3>2, <3>4, <4>1
      <4>2. CASE i = Len(subscribers) + 1 /\ subscribers'[i] = e
        BY <2>1, <2>4, <3>2, <3>4, <4>2
      <4>. QED
        BY <3>2, <4>1, <4>2
    <3>. QED
      BY <3>3, <3>4 DEF ArrayInv
  <2>6. ASSUME NEW q, NEW u PROVE IsListed(q, u)' <=> IsListed(q, u) \/ (q = s /\ u = t)
    <3>1. Len(subscribers) + 1 \in 1 .. Len(subscribers')
      BY <1>1, <2>3
    <3>2. \A i \in 1 .. Len(subscribers) : i \in 1 .. Len(subscribers')
      BY <1>1, <2>3
    <3>3. \A i \in 1 .. Len(subscribers') : i \in 1 .. Len(subscribers) \/ i = Len(subscribers) + 1
      BY <1>1, <2>3
    <3>. QED
      BY <2>1, <2>3, <3>1, <3>2, <3>3 DEF IsListed
  <2>. QED
    BY <2>3, <2>5, <2>6
<1>3. CASE Known(s) # {}
  <2>1. PICK i \in 1 .. Len(subscribers) : i = find_subscriber(s) /\ subscribers[i].pid = s
    <3>1. PICK k \in Known(s) : TRUE
      BY <1>3
    <3>2. \A j \in Known(s) : j = k
      BY <1>1 DEF Known, IndInv, ArrayInv
    <3>3. find_subscriber(s) = k
      BY <1>1, <3>1, <3>2 DEF find_subscriber, Known
    <3>. QED
      BY <1>1, <3>1, <3>3 DEF Known
  <2>. DEFINE e == [subscribers[i] EXCEPT !.topics = @ \union {t}]
  <2>2. e \in Entries /\ e.pid = s /\ e.topics = subscribers[i].topics \union {t}
    BY <1>1, <2>1 DEF Entries
  <2>3. subscribers' = [subscribers EXCEPT ![i] = e]
    BY <1>3, <2>1 DEF add_subscription
  <2>. HIDE DEF e
  <2>4. /\ subscribers' \in Seq(Entries) /\ Len(subscribers') = Len(subscribers)
        /\ \A j \in 1 .. Len(subscribers) : subscribers'[j] = IF j = i THEN e ELSE subscribers[j]
    BY <1>1, <2>2, <2>3, ExceptSeq
  <2>5. ArrayInv'
    BY <1>1, <2>1, <2>2, <2>4 DEF ArrayInv, IndInv
  <2>6. ASSUME NEW q, NEW u PROVE IsListed(q, u)' <=> IsListed(q, u) \/ (q = s /\ u = t)
    BY <2>1, <2>2, <2>4 DEF IsListed
  <2>. QED
    BY <2>4, <2>5, <2>6
<1>. QED
  BY <1>2, <1>3

\* The topics of the list after one of s was removed.
LEMMA DropEntry ==
  ASSUME IndInv, NEW s \in Subscribers, NEW t \in ToSet(TopicsOf[s]), remove_subscription(s, t)
  PROVE  /\ subscribers' \in Seq(Entries) /\ ArrayInv'
         /\ \A q, u : IsListed(q, u)' <=> IsListed(q, u) /\ ~(q = s /\ u = t)
<1>1. /\ subscribers \in Seq(Entries) /\ Len(subscribers) \in Nat
      /\ \A i \in 1 .. Len(subscribers) : /\ subscribers[i] \in Entries
                                          /\ subscribers[i].topics \subseteq ToSet(TopicsOf[subscribers[i].pid])
      /\ DOMAIN subscribers = 1 .. Len(subscribers)
      /\ \A i, j \in 1 .. Len(subscribers) : subscribers[i].pid = subscribers[j].pid => i = j
      /\ \A i \in 1 .. Len(subscribers) : subscribers[i].topics # {}
  BY Queued, LenProperties DEF IndInv, TypeInv, DataInv, ArrayInv
<1>2. CASE Known(s) = {}
  <2>1. subscribers' = subscribers
    BY <1>2 DEF remove_subscription
  <2>2. \A i \in 1 .. Len(subscribers) : subscribers[i].pid # s
    BY <1>1, <1>2 DEF Known
  <2>3. ArrayInv'
    BY <2>1 DEF ArrayInv, IndInv
  <2>. QED
    BY <1>1, <2>1, <2>2, <2>3 DEF IsListed
<1>3. CASE Known(s) # {}
  <2>1. PICK i \in 1 .. Len(subscribers) : i = find_subscriber(s) /\ subscribers[i].pid = s
    <3>1. PICK k \in Known(s) : TRUE
      BY <1>3
    <3>2. \A j \in Known(s) : j = k
      BY <1>1 DEF Known
    <3>3. find_subscriber(s) = k
      BY <1>1, <3>1, <3>2 DEF find_subscriber, Known
    <3>. QED
      BY <1>1, <3>1, <3>3 DEF Known
  <2>2. CASE subscribers[i].topics \ {t} = {}
    <3>1. subscribers' = RemoveAt(subscribers, i)
      BY <1>3, <2>1, <2>2 DEF remove_subscription
    <3>2. /\ subscribers' \in Seq(Entries) /\ Len(subscribers') = Len(subscribers) - 1
          /\ \A j \in 1 .. Len(subscribers') : /\ Old(j, i) \in 1 .. Len(subscribers) /\ Old(j, i) # i
                                               /\ subscribers'[j] = subscribers[Old(j, i)]
          /\ \A j \in 1 .. Len(subscribers) : j # i => /\ New(j, i) \in 1 .. Len(subscribers')
                                                       /\ subscribers'[New(j, i)] = subscribers[j]
      <4>1. subscribers \in Seq(Entries) /\ i \in 1 .. Len(subscribers)
        BY <1>1
      <4>. QED
        BY <3>1, <4>1, TakeOut
    <3>3. ArrayInv'
      <4>. SUFFICES ASSUME NEW j \in 1 .. Len(subscribers'), NEW k \in 1 .. Len(subscribers')
                    PROVE  /\ subscribers'[j].topics # {}
                           /\ subscribers'[j].pid = subscribers'[k].pid => j = k
        BY DEF ArrayInv
      <4>1. subscribers'[j].topics # {}
        <5>1. Old(j, i) \in 1 .. Len(subscribers) /\ subscribers'[j] = subscribers[Old(j, i)]
          BY <3>2
        <5>. QED
          BY <1>1, <5>1
      <4>2. ASSUME subscribers'[j].pid = subscribers'[k].pid PROVE j = k
        <5>1. Old(j, i) = Old(k, i)
          BY <1>1, <3>2, <4>2
        <5>2. Len(subscribers') \in Nat
          BY <3>2, LenProperties
        <5>. QED
          BY <5>1, <5>2, <2>1, <1>1 DEF Old
      <4>. QED
        BY <4>1, <4>2
    <3>4. ASSUME NEW q, NEW u PROVE IsListed(q, u)' <=> IsListed(q, u) /\ ~(q = s /\ u = t)
      <4>1. ASSUME NEW j \in 1 .. Len(subscribers'), subscribers'[j].pid = q, u \in subscribers'[j].topics
            PROVE  IsListed(q, u) /\ ~(q = s /\ u = t)
        <5>1. Old(j, i) \in 1 .. Len(subscribers) /\ Old(j, i) # i /\ subscribers'[j] = subscribers[Old(j, i)]
          BY <3>2
        <5>2. subscribers[Old(j, i)].pid # s
          BY <1>1, <2>1, <5>1
        <5>. QED
          BY <4>1, <5>1, <5>2 DEF IsListed
      <4>2. ASSUME NEW j \in 1 .. Len(subscribers), subscribers[j].pid = q, u \in subscribers[j].topics,
                   ~(q = s /\ u = t)
            PROVE  IsListed(q, u)'
        <5>1. j # i
          BY <2>1, <2>2, <4>2
        <5>2. New(j, i) \in 1 .. Len(subscribers') /\ subscribers'[New(j, i)] = subscribers[j]
          BY <3>2, <5>1
        <5>. QED
          BY <4>2, <5>2 DEF IsListed
      <4>. QED
        BY <4>1, <4>2 DEF IsListed
    <3>. QED
      BY <3>2, <3>3, <3>4
  <2>3. CASE subscribers[i].topics \ {t} # {}
    <3>. DEFINE e == [subscribers[i] EXCEPT !.topics = subscribers[i].topics \ {t}]
    <3>1. e \in Entries /\ e.pid = s /\ e.topics = subscribers[i].topics \ {t}
      BY <1>1, <2>1 DEF Entries
    <3>2. subscribers' = [subscribers EXCEPT ![i] = e]
      BY <1>3, <2>1, <2>3 DEF remove_subscription
    <3>. HIDE DEF e
    <3>3. /\ subscribers' \in Seq(Entries) /\ Len(subscribers') = Len(subscribers)
          /\ \A j \in 1 .. Len(subscribers) : subscribers'[j] = IF j = i THEN e ELSE subscribers[j]
      BY <1>1, <3>1, <3>2, ExceptSeq
    <3>4. ArrayInv'
      BY <1>1, <2>1, <2>3, <3>1, <3>3 DEF ArrayInv
    <3>5. ASSUME NEW q, NEW u PROVE IsListed(q, u)' <=> IsListed(q, u) /\ ~(q = s /\ u = t)
      BY <1>1, <2>1, <3>1, <3>3 DEF IsListed
    <3>. QED
      BY <3>3, <3>4, <3>5
  <2>. QED
    BY <2>2, <2>3
<1>. QED
  BY <1>2, <1>3

\* A request that is done with: the list holds what the requests said.
LEMMA RequestDone ==
  ASSUME IndInv, pc[Broker] = "b_process", Goto(Broker, "b_check"),
         subscribers' \in Seq(Entries), ArrayInv',
         \A q, u : IsListed(q, u)' =>
            \/ IsListed(q, u) /\ ~(cur.cmd = "unsubscribe" /\ cur.pid = q /\ cur.topic = u)
            \/ cur.cmd = "subscribe" /\ cur.pid = q /\ cur.topic = u,
         \A q, u : IsListed(q, u) \/ (cur.cmd = "subscribe" /\ cur.pid = q /\ cur.topic = u) =>
            IsListed(q, u)' \/ (cur.cmd = "unsubscribe" /\ cur.pid = q),
         ~Line(cur) \/ cur.n = 0,
         UNCHANGED <<asleep, exit_flag, idx, qstate, queue, publishers, cur, users, history>>
  PROVE  IndInv'
<1>1. /\ pc'[Broker] = "b_check" /\ \A q \in Procs : q # Broker => pc'[q] = pc[q]
      /\ pc' \in [Procs -> BrokerPcs \union PublisherPcs \union SubscriberPcs]
  BY PcMoves, Processes DEF IndInv, TypeInv, PcInv, Goto, BrokerPcs
<1>2. /\ \A s \in Subscribers : pc'[s] = pc[s] /\ Remaining(s)' = Remaining(s)
      /\ \A p \in Publishers : pc'[p] = pc[p]
  BY <1>1, Processes DEF Remaining
<1>3. TypeInv'
  <2>1. PcInv'
    BY <1>1, <1>2 DEF IndInv, TypeInv, PcInv, BrokerPcs
  <2>2. IdxInv'
    BY <1>2 DEF IndInv, TypeInv, IdxInv
  <2>3. DataInv'
    BY <1>1 DEF IndInv, TypeInv, DataInv, users
  <2>4. HistoryInv'
    BY DEF IndInv, TypeInv, HistoryInv, history
  <2>. QED
    BY <2>1, <2>2, <2>3, <2>4 DEF TypeInv
<1>4. qstate = "live"
  BY DEF IndInv, QueueInv
<1>5. QueueInv'
  BY <1>1, <1>2, <1>4 DEF IndInv, QueueInv
<1>6. ~AtWork'
  BY <1>1 DEF AtWork
<1>7. OrderInv'
  <2>1. \A p \in Publishers : PublisherQuiet(p)
    BY <1>2 DEF PublisherQuiet, users
  <2>2. \A m \in Messages : m.pid \in Publishers /\ Sent(m) => Sent(m)'
    BY <2>1, SentStays DEF IndInv
  <2>3. SentInv'
    <3>1. \A i \in 1 .. Len(queue) : Line(queue[i]) => Sent(queue[i])'
      BY <2>2, Queued DEF IndInv, OrderInv, SentInv
    <3>2. Line(cur) => Sent(cur)'
      BY <2>2, Queued DEF IndInv, OrderInv, SentInv
    <3>3. \A s \in Subscribers : \A i \in 1 .. Len(received[s]) : Sent(received[s][i])'
      BY <2>2, Queued, Kinds DEF IndInv, OrderInv, SentInv, history
    <3>. QED
      BY <3>1, <3>2, <3>3 DEF SentInv, Sent, history
  <2>4. QueueOrder' /\ ReceivedOrder'
    BY DEF IndInv, OrderInv, QueueOrder, ReceivedOrder, history
  <2>5. CurrentOrder'
    BY <1>6 DEF CurrentOrder
  <2>. QED
    BY <2>3, <2>4, <2>5 DEF OrderInv
<1>8. LeaveInv'
  <2>1. \A s \in Subscribers : \A t, k : LeavesAfter(s, t, k)' <=> LeavesAfter(s, t, k)
    BY <1>2 DEF LeavesAfter
  <2>. SUFFICES ASSUME NEW s \in unsubbed, pc[s] # "failed", s \in Subscribers
                PROVE  /\ \A t \in ToSet(TopicsOf[s]) : IsListed(s, t)' => LeavesAfter(s, t, 0)
                       /\ \A k \in 1 .. Len(queue) :
                            queue[k].cmd = "subscribe" /\ queue[k].pid = s => LeavesAfter(s, queue[k].topic, k)
    <3>1. unsubbed' = unsubbed /\ unsubbed \subseteq Subscribers /\ queue' = queue
      BY DEF history, IndInv, TypeInv, HistoryInv
    <3>. QED
      BY <1>1, <1>2, <2>1, <3>1 DEF LeaveInv
  <2>. QED
    BY DEF IndInv, LeaveInv
<1>9. RequestInv'
  <2>. SUFFICES ASSUME NEW s \in Subscribers, pc[s] \in {"start", "s_sub"} \union Listening
                PROVE  /\ pc[s] # "start" =>
                             \A k \in 1 .. Len(TopicsOf[s]) :
                                 (pc[s] = "s_sub" => k < idx[s]) => Requested(s, TopicsOf[s][k])'
                       /\ \A k \in 1 .. Len(queue) : queue[k].pid = s => queue[k].cmd = "subscribe"
                       /\ cur.pid = s => cur.cmd = "subscribe"
                       /\ pc[s] \notin Listening => expected[s] = {}
    BY <1>2 DEF RequestInv, Requested, IsListed, history
  <2>1. cur.pid = s => cur.cmd = "subscribe"
    BY DEF IndInv, ListenInv, RequestInv
  <2>2. \A t : Requested(s, t) => Requested(s, t)'
    BY <2>1 DEF Requested
  <2>. QED
    BY <1>4, <2>1, <2>2 DEF IndInv, ListenInv, RequestInv
<1>10. BehindInv'
  BY <1>2, <1>6 DEF IndInv, ListenInv, BehindInv, IsIt, Line, AllAsked, history
<1>11. FoundInv'
  <2>. SUFFICES ASSUME ~exit_flag[Broker], NEW s \in Subscribers, pc[s] \in Listening, NEW e \in expected[s]
                PROVE  Found(s, e)'
    BY <1>2 DEF FoundInv, history
  <2>1. Found(s, e)
    BY <1>4 DEF IndInv, ListenInv, FoundInv
  <2>2. e \in Publishers \X (1 .. MaxLines)
    BY DEF IndInv, TypeInv, HistoryInv
  <2>3. e[2] \in 1 .. MaxLines
    BY <2>2
  <2>4. e[2] # 0
    BY <2>3, Processes
  <2>5. ~IsIt(cur, e)
    BY <2>4 DEF IsIt
  <2>. QED
    BY <2>1, <2>5 DEF Found, IsIt, Line, history
<1>. QED
  BY <1>3, <1>5, <1>7, <1>8, <1>9, <1>10, <1>11 DEF IndInv, ListenInv

\* A line that the broker starts to forward: every subscriber that counts on it is listed.
LEMMA ForwardStarts ==
  ASSUME IndInv, pc[Broker] = "b_process", cur.cmd = "send", cur.n # 0,
         publishers' = publishers \union {cur.pid}, idx' = [idx EXCEPT ![Broker] = 1],
         Goto(Broker, "b_forward"),
         UNCHANGED <<subscribers, asleep, exit_flag, qstate, queue, cur, users, history>>
  PROVE  IndInv'
<1>1. /\ pc'[Broker] = "b_forward" /\ \A q \in Procs : q # Broker => pc'[q] = pc[q]
      /\ pc' \in [Procs -> BrokerPcs \union PublisherPcs \union SubscriberPcs]
  BY PcMoves, Processes DEF IndInv, TypeInv, PcInv, Goto, BrokerPcs
<1>2. idx \in [Procs -> Nat \ {0}]
  BY DEF IndInv, TypeInv, IdxInv
<1>3. /\ idx'[Broker] = 1 /\ \A q \in Procs : q # Broker => idx'[q] = idx[q]
      /\ idx' \in [Procs -> Nat \ {0}]
  BY <1>2, Processes
<1>4. /\ \A s \in Subscribers : pc'[s] = pc[s] /\ idx'[s] = idx[s]
      /\ \A p \in Publishers : pc'[p] = pc[p]
  BY <1>1, <1>3, Processes
<1>5. cur \in Posted /\ cur.pid \in Publishers /\ Line(cur)
  BY Queued DEF IndInv, Line
<1>6. TypeInv'
  <2>1. PcInv'
    BY <1>1, <1>4 DEF IndInv, TypeInv, PcInv, BrokerPcs
  <2>2. IdxInv'
    BY <1>3, <1>4 DEF IndInv, TypeInv, IdxInv
  <2>3. DataInv'
    BY <1>1, <1>5 DEF IndInv, TypeInv, DataInv, users
  <2>4. HistoryInv'
    BY DEF IndInv, TypeInv, HistoryInv, history
  <2>. QED
    BY <2>1, <2>2, <2>3, <2>4 DEF TypeInv
<1>7. qstate = "live" /\ AtWork /\ AtWork'
  BY <1>1 DEF IndInv, QueueInv, AtWork
<1>8. QueueInv' /\ ArrayInv'
  BY <1>1, <1>4, <1>7 DEF IndInv, QueueInv, ArrayInv
<1>9. OrderInv'
  <2>1. \A p \in Publishers : PublisherQuiet(p)
    BY <1>4 DEF PublisherQuiet, users
  <2>2. \A m \in Messages : m.pid \in Publishers /\ Sent(m) => Sent(m)'
    BY <2>1, SentStays DEF IndInv
  <2>3. SentInv'
    <3>1. \A i \in 1 .. Len(queue) : Line(queue[i]) => Sent(queue[i])'
      BY <2>2, Queued DEF IndInv, OrderInv, SentInv
    <3>2. Sent(cur)'
      BY <1>5, <2>2, Queued DEF IndInv, OrderInv, SentInv
    <3>3. \A s \in Subscribers : \A i \in 1 .. Len(received[s]) : Sent(received[s][i])'
      BY <2>2, Queued, Kinds DEF IndInv, OrderInv, SentInv, history
    <3>. QED
      BY <3>1, <3>2, <3>3 DEF SentInv, Sent, history
  <2>4. QueueOrder' /\ ReceivedOrder'
    BY DEF IndInv, OrderInv, QueueOrder, ReceivedOrder, history
  <2>5. \A s : StillToServe(s)
    BY DEF StillToServe
  <2>6. CurrentOrder'
    BY <1>5, <1>7, <2>5 DEF IndInv, OrderInv, CurrentOrder, Before, Line, history
  <2>. QED
    BY <2>3, <2>4, <2>6 DEF OrderInv
<1>10. LeaveInv'
  <2>1. \A s \in Subscribers : \A t, k : LeavesAfter(s, t, k)' <=> LeavesAfter(s, t, k)
    BY <1>4 DEF LeavesAfter, Remaining
  <2>2. unsubbed' = unsubbed /\ unsubbed \subseteq Subscribers /\ queue' = queue
    BY DEF history, IndInv, TypeInv, HistoryInv
  <2>3. \A s, t : IsListed(s, t)' <=> IsListed(s, t)
    BY DEF IsListed
  <2>. QED
    BY <1>1, <1>4, <2>1, <2>2, <2>3 DEF IndInv, LeaveInv
<1>11. RequestInv'
  <2>1. \A s, t : Requested(s, t) => Requested(s, t)'
    BY DEF Requested, IsListed
  <2>2. UNCHANGED <<expected, queue, cur, qstate>>
    BY DEF history
  <2>. QED
    BY <1>4, <2>1, <2>2 DEF IndInv, ListenInv, RequestInv
<1>12. BehindInv'
  BY <1>4, <1>7 DEF IndInv, ListenInv, BehindInv, IsIt, Line, AllAsked, history
<1>13. FoundInv'
  <2>. SUFFICES ASSUME ~exit_flag[Broker], NEW s \in Subscribers, pc[s] \in Listening, NEW e \in expected[s]
                PROVE  Found(s, e)'
    BY <1>4 DEF FoundInv, history
  <2>1. Found(s, e)
    BY <1>7 DEF IndInv, ListenInv, FoundInv
  <2>2. ASSUME IsIt(cur, e) PROVE StillToServe(s)'
    <3>1. PICK i \in 1 .. Len(subscribers) : subscribers[i].pid = s
      BY <1>7, <2>2, Counted DEF IsListed
    <3>2. i >= 1
      BY <3>1, Queued DEF IndInv
    <3>. QED
      BY <1>3, <3>1, <3>2 DEF StillToServe
  <2>. QED
    BY <1>7, <2>1, <2>2 DEF Found, IsIt, Line, history
<1>. QED
  BY <1>6, <1>8, <1>9, <1>10, <1>11, <1>12, <1>13 DEF IndInv, ListenInv

LEMMA ProcessMessageStep ==
  ASSUME IndInv, ProcessMessage
  PROVE  IndInv'
<1>. USE DEF ProcessMessage
<1>1. cur \in Messages /\ (cur.cmd \in {"subscribe", "unsubscribe"} => cur \in Asked)
  BY Queued, Kinds DEF IndInv, TypeInv, DataInv
<1>2. ~Line(cur) => cur.cmd \in {"subscribe", "unsubscribe"} \/ cur = NoMessage
  BY Kinds DEF IndInv, TypeInv, DataInv, Line
<1>3. CASE cur.cmd = "subscribe"
  <2>1. cur.pid \in Subscribers /\ cur.topic \in ToSet(TopicsOf[cur.pid])
    BY <1>1, <1>3, Kinds
  <2>2. add_subscription(cur.pid, cur.topic) /\ Goto(Broker, "b_check") /\ UNCHANGED <<publishers, idx>>
    BY <1>3
  <2>3. /\ subscribers' \in Seq(Entries) /\ ArrayInv'
        /\ \A q, u : IsListed(q, u)' <=> IsListed(q, u) \/ (q = cur.pid /\ u = cur.topic)
    BY <2>1, <2>2, AddEntry
  <2>4. ~Line(cur)
    BY <1>3 DEF Line
  <2>. QED
    BY <1>3, <2>2, <2>3, <2>4, RequestDone
<1>4. CASE cur.cmd = "unsubscribe"
  <2>1. cur.pid \in Subscribers /\ cur.topic \in ToSet(TopicsOf[cur.pid])
    BY <1>1, <1>4, Kinds
  <2>2. remove_subscription(cur.pid, cur.topic) /\ Goto(Broker, "b_check") /\ UNCHANGED <<publishers, idx>>
    BY <1>4
  <2>3. /\ subscribers' \in Seq(Entries) /\ ArrayInv'
        /\ \A q, u : IsListed(q, u)' <=> IsListed(q, u) /\ ~(q = cur.pid /\ u = cur.topic)
    BY <2>1, <2>2, DropEntry
  <2>4. ~Line(cur)
    BY <1>4 DEF Line
  <2>. QED
    BY <1>4, <2>2, <2>3, <2>4, RequestDone
<1>5. CASE cur.cmd = "send" /\ cur.n # 0
  <2>1. /\ publishers' = publishers \union {cur.pid} /\ idx' = [idx EXCEPT ![Broker] = 1]
        /\ Goto(Broker, "b_forward") /\ UNCHANGED subscribers
    BY <1>5
  <2>. QED
    BY <1>5, <2>1, ForwardStarts
<1>6. CASE cur.cmd = "send" /\ cur.n = 0
  <2>1. Goto(Broker, "b_check") /\ UNCHANGED <<publishers, subscribers, idx>>
    BY <1>6
  <2>2. subscribers' \in Seq(Entries) /\ ArrayInv'
    BY <2>1 DEF IndInv, TypeInv, DataInv, ArrayInv
  <2>3. \A q, u : IsListed(q, u)' <=> IsListed(q, u)
    BY <2>1 DEF IsListed
  <2>. QED
    BY <1>6, <2>1, <2>2, <2>3, RequestDone
<1>. QED
  BY <1>3, <1>4, <1>5, <1>6

LEMMA CleanupRemoveStep ==
  ASSUME IndInv, CleanupRemove
  PROVE  IndInv'
<1>. USE DEF CleanupRemove
<1>1. /\ pc'[Broker] = "done" /\ \A q \in Procs : q # Broker => pc'[q] = pc[q]
      /\ pc' \in [Procs -> BrokerPcs \union PublisherPcs \union SubscriberPcs]
  BY PcMoves, Processes DEF IndInv, TypeInv, PcInv, Goto, BrokerPcs
<1>2. /\ \A s \in Subscribers : pc'[s] = pc[s]
      /\ \A p \in Publishers : pc'[p] = pc[p]
  BY <1>1, Processes
<1>3. queue' = <<>> /\ subscribers' = <<>> /\ Len(queue') = 0 /\ Len(subscribers') = 0 /\ qstate' = "gone"
  OBVIOUS
<1>4. TypeInv'
  <2>1. PcInv'
    BY <1>1, <1>2 DEF IndInv, TypeInv, PcInv, BrokerPcs
  <2>2. IdxInv'
    BY <1>2 DEF IndInv, TypeInv, IdxInv
  <2>3. DataInv'
    BY <1>1, EmptySeq, PubSubAssumption DEF IndInv, TypeInv, DataInv, users
  <2>4. HistoryInv'
    BY DEF IndInv, TypeInv, HistoryInv, history
  <2>. QED
    BY <2>1, <2>2, <2>3, <2>4 DEF TypeInv
<1>5. QueueInv' /\ ArrayInv'
  BY <1>1, <1>3 DEF QueueInv, ArrayInv
<1>6. ~AtWork'
  BY <1>1 DEF AtWork
<1>7. OrderInv'
  <2>1. \A p \in Publishers : PublisherQuiet(p)
    BY <1>2 DEF PublisherQuiet, users
  <2>2. \A m \in Messages : m.pid \in Publishers /\ Sent(m) => Sent(m)'
    BY <2>1, SentStays DEF IndInv
  <2>3. SentInv'
    <3>1. Line(cur) => Sent(cur)'
      BY <2>2, Queued DEF IndInv, OrderInv, SentInv
    <3>2. \A s \in Subscribers : \A i \in 1 .. Len(received[s]) : Sent(received[s][i])'
      BY <2>2, Queued, Kinds DEF IndInv, OrderInv, SentInv, history
    <3>. QED
      BY <1>3, <3>1, <3>2 DEF SentInv, Sent, history
  <2>4. QueueOrder' /\ ReceivedOrder'
    BY <1>3 DEF IndInv, OrderInv, QueueOrder, ReceivedOrder, Before, history
  <2>. QED
    BY <1>6, <2>3, <2>4 DEF OrderInv, CurrentOrder
<1>8. LeaveInv'
  BY <1>1, <1>3 DEF LeaveInv, IsListed
<1>9. RequestInv'
  BY <1>2, <1>3 DEF IndInv, ListenInv, RequestInv, history
<1>10. BehindInv' /\ FoundInv'
  BY <1>3, <1>6 DEF BehindInv, FoundInv
<1>. QED
  BY <1>4, <1>5, <1>7, <1>8, <1>9, <1>10 DEF IndInv, ListenInv

-----------------------------------------------------------------------------
(* Steps that take a message *)

LEMMA Taken ==
  ASSUME IndInv, NEW p, NEW at, NEW k \in DOMAIN queue, Receive(p, at, k)
  PROVE  /\ k \in 1 .. Len(queue) /\ queue[k].to = p
         /\ \A j \in 1 .. Len(queue) : queue[j].to = p => k <= j
         /\ queue' \in Seq(Posted \union Delivered \union Asked) /\ Len(queue') <= QueueCap
         /\ \A i \in 1 .. Len(queue') : /\ Old(i, k) \in 1 .. Len(queue) /\ Old(i, k) # k
                                        /\ queue'[i] = queue[Old(i, k)]
         /\ \A i, j \in 1 .. Len(queue') : i < j => Old(i, k) < Old(j, k)
         /\ \A j \in 1 .. Len(queue) : j # k => New(j, k) \in 1 .. Len(queue') /\ queue'[New(j, k)] = queue[j]
         /\ \A i \in 1 .. Len(queue') : \A j \in 1 .. Len(queue) :
               j # k /\ j > Old(i, k) => New(j, k) > i
         /\ QueueOrder'
<1>1. /\ queue \in Seq(Posted \union Delivered \union Asked) /\ DOMAIN queue = 1 .. Len(queue)
      /\ Len(queue) <= QueueCap /\ Len(queue) \in Nat /\ QueueCap \in Nat
  BY LenProperties, PubSubAssumption DEF IndInv, TypeInv, DataInv
<1>2. k \in 1 .. Len(queue) /\ queue[k].to = p /\ \A j \in 1 .. Len(queue) : queue[j].to = p => k <= j
  BY <1>1 DEF Receive, Waiting
<1>3. queue' = RemoveAt(queue, k)
  BY DEF Receive
<1>4. /\ queue' \in Seq(Posted \union Delivered \union Asked) /\ Len(queue') = Len(queue) - 1
      /\ \A i \in 1 .. Len(queue') : /\ Old(i, k) \in 1 .. Len(queue) /\ Old(i, k) # k
                                     /\ queue'[i] = queue[Old(i, k)]
      /\ \A i, j \in 1 .. Len(queue') : i < j <=> Old(i, k) < Old(j, k)
      /\ \A j \in 1 .. Len(queue) : j # k => New(j, k) \in 1 .. Len(queue') /\ queue'[New(j, k)] = queue[j]
  <2>1. queue \in Seq(Posted \union Delivered \union Asked) /\ k \in 1 .. Len(queue)
    BY <1>1, <1>2
  <2>. QED
    BY <1>3, <2>1, TakeOut
<1>5. \A i \in 1 .. Len(queue') : \A j \in 1 .. Len(queue) : j # k /\ j > Old(i, k) => New(j, k) > i
  BY <1>1, <1>2, <1>4 DEF Old, New
<1>6. Len(queue') <= QueueCap
  BY <1>1, <1>4
<1>7. QueueOrder'
  <2>. SUFFICES ASSUME NEW i \in 1 .. Len(queue'), NEW j \in 1 .. Len(queue'),
                       Line(queue'[i]), Line(queue'[j]),
                       \/ queue'[i].to = queue'[j].to /\ i < j
                       \/ queue'[i].to # Broker /\ queue'[j].to = Broker
                PROVE  Before(queue'[i], queue'[j])
    BY DEF QueueOrder, Before, Line
  <2>1. /\ Old(i, k) \in 1 .. Len(queue) /\ queue'[i] = queue[Old(i, k)]
        /\ Old(j, k) \in 1 .. Len(queue) /\ queue'[j] = queue[Old(j, k)]
        /\ i < j => Old(i, k) < Old(j, k)
    BY <1>4
  <2>. QED
    BY <2>1 DEF IndInv, OrderInv, QueueOrder
<1>. QED
  BY <1>2, <1>4, <1>5, <1>6, <1>7

\* The oldest message to the broker: requests keep their order, and so do lines.
LEMMA BrokerReceives ==
  ASSUME IndInv, NEW k \in DOMAIN queue, Receive(Broker, "b_recv", k), NEW c, c = queue[k], cur' = c,
         Goto(Broker, "b_process"),
         UNCHANGED <<exit_flag, idx, qstate, publishers, subscribers, users, history>>
  PROVE  IndInv'
<1>1. /\ pc[Broker] = "b_recv" /\ qstate = "live" /\ asleep' = asleep \ {Broker}
      /\ pc'[Broker] = "b_process" /\ \A q \in Procs : q # Broker => pc'[q] = pc[q]
      /\ pc' \in [Procs -> BrokerPcs \union PublisherPcs \union SubscriberPcs]
  BY PcMoves, Processes DEF IndInv, TypeInv, PcInv, Goto, BrokerPcs, Receive
<1>2. /\ \A s \in Subscribers : pc'[s] = pc[s]
      /\ \A p \in Publishers : pc'[p] = pc[p]
      /\ ~AtWork
  BY <1>1, Processes DEF AtWork
<1>3. /\ k \in 1 .. Len(queue) /\ c.to = Broker
      /\ \A j \in 1 .. Len(queue) : queue[j].to = Broker => k <= j
      /\ queue' \in Seq(Posted \union Delivered \union Asked) /\ Len(queue') <= QueueCap
      /\ QueueOrder'
  BY Taken
<1>4. /\ \A i \in 1 .. Len(queue') : /\ Old(i, k) \in 1 .. Len(queue) /\ Old(i, k) # k
                                     /\ queue'[i] = queue[Old(i, k)]
      /\ \A i, j \in 1 .. Len(queue') : i < j => Old(i, k) < Old(j, k)
      /\ \A j \in 1 .. Len(queue) : j # k => New(j, k) \in 1 .. Len(queue') /\ queue'[New(j, k)] = queue[j]
      /\ \A i \in 1 .. Len(queue') : \A j \in 1 .. Len(queue) :
            j # k /\ j > Old(i, k) => New(j, k) > i
  BY Taken
<1>5. \A j \in 1 .. Len(queue) : queue[j].to = Broker /\ j # k => j > k
  <2>1. Len(queue) \in Nat
    BY Queued DEF IndInv
  <2>. QED
    BY <1>3, <2>1
<1>6. \A i \in 1 .. Len(queue') : queue'[i].to = Broker => Old(i, k) > k
  BY <1>4, <1>5
<1>7. c \in Posted \union Asked /\ (c.cmd # "send" => c \in Asked) /\ (Line(c) => c \in Posted)
  BY <1>3, Queued, Kinds, Processes DEF IndInv, Line
<1>8. TypeInv'
  <2>1. PcInv'
    BY <1>1, <1>2 DEF IndInv, TypeInv, PcInv, BrokerPcs
  <2>2. IdxInv'
    BY <1>2 DEF IndInv, TypeInv, IdxInv
  <2>3. DataInv'
    BY <1>1, <1>3, <1>7, Kinds DEF IndInv, TypeInv, DataInv, users
  <2>4. HistoryInv'
    BY DEF IndInv, TypeInv, HistoryInv, history
  <2>. QED
    BY <2>1, <2>2, <2>3, <2>4 DEF TypeInv
<1>9. QueueInv' /\ ArrayInv'
  BY <1>1, <1>2 DEF IndInv, QueueInv, ArrayInv
<1>10. OrderInv'
  <2>1. \A p \in Publishers : PublisherQuiet(p)
    BY <1>2 DEF PublisherQuiet, users
  <2>2. \A m \in Messages : m.pid \in Publishers /\ Sent(m) => Sent(m)'
    BY <2>1, SentStays DEF IndInv
  <2>3. \A m \in Messages : Line(m) /\ (\E j \in 1 .. Len(queue) : m = queue[j]) => Sent(m)'
    BY <2>2, Queued DEF IndInv, OrderInv, SentInv
  <2>4. SentInv'
    <3>1. ASSUME NEW i \in 1 .. Len(queue'), NEW m, m = queue'[i], Line(m) PROVE Sent(m)'
      <4>1. m = queue[Old(i, k)] /\ Old(i, k) \in 1 .. Len(queue) /\ m \in Messages
        BY <1>4, <3>1, Queued DEF IndInv
      <4>. QED
        BY <2>3, <3>1, <4>1
    <3>2. Line(c) => Sent(c)'
      BY <1>3, <1>7, <2>3, Kinds
    <3>3. \A s \in Subscribers : \A i \in 1 .. Len(received[s]) : Sent(received[s][i])'
      BY <2>2, Queued, Kinds DEF IndInv, OrderInv, SentInv, history
    <3>. QED
      BY <3>1, <3>2, <3>3 DEF SentInv, Sent, Line, history
  <2>5. ReceivedOrder'
    <3>1. ASSUME NEW s \in Subscribers, NEW i \in 1 .. Len(received[s])
          PROVE  /\ \A j \in 1 .. Len(received[s]) : i < j => Before(received[s][i], received[s][j])
                 /\ \A j \in 1 .. Len(queue') : Line(queue'[j]) /\ queue'[j].to \in {s, Broker}
                         => Before(received[s][i], queue'[j])
      BY <1>4 DEF IndInv, OrderInv, ReceivedOrder
    <3>. QED
      BY <3>1 DEF ReceivedOrder, Before, Line, history
  <2>6. CurrentOrder'
    <3>. SUFFICES ASSUME Line(c)
                  PROVE  /\ \A j \in 1 .. Len(queue') : Line(queue'[j]) =>
                              /\ queue'[j].to = Broker => Before(c, queue'[j])
                              /\ queue'[j].to # Broker => Before(queue'[j], c)
                         /\ \A s \in Subscribers : \A i \in 1 .. Len(received[s]) : Before(received[s][i], c)
      BY DEF CurrentOrder, Before, Line, history
    <3>1. ASSUME NEW j \in 1 .. Len(queue'), Line(queue'[j])
          PROVE  /\ queue'[j].to = Broker => Before(c, queue'[j])
                 /\ queue'[j].to # Broker => Before(queue'[j], c)
      <4>1. Old(j, k) \in 1 .. Len(queue) /\ queue'[j] = queue[Old(j, k)]
        BY <1>4
      <4>2. queue'[j].to = Broker => k < Old(j, k)
        BY <1>6
      <4>. QED
        BY <1>3, <3>1, <4>1, <4>2 DEF IndInv, OrderInv, QueueOrder
    <3>2. \A s \in Subscribers : \A i \in 1 .. Len(received[s]) : Before(received[s][i], c)
      BY <1>3 DEF IndInv, OrderInv, ReceivedOrder
    <3>. QED
      BY <3>1, <3>2
  <2>. QED
    BY <1>3, <2>4, <2>5, <2>6 DEF OrderInv
<1>11. LeaveInv'
  <2>1. unsubbed' = unsubbed /\ unsubbed \subseteq Subscribers
    BY DEF history, IndInv, TypeInv, HistoryInv
  <2>2. \A s, t : IsListed(s, t)' <=> IsListed(s, t)
    BY DEF IsListed
  <2>. SUFFICES ASSUME NEW s \in unsubbed, pc[s] # "failed"
                PROVE  /\ \A t \in ToSet(TopicsOf[s]) : IsListed(s, t) =>
                             \/ LeavesAfter(s, t, 0)'
                             \/ c.cmd = "unsubscribe" /\ c.pid = s /\ c.topic = t
                       /\ \A i \in 1 .. Len(queue') : \A t : t = queue'[i].topic =>
                             (queue'[i].cmd = "subscribe" /\ queue'[i].pid = s => LeavesAfter(s, t, i)')
                       /\ \A t : c.cmd = "subscribe" /\ c.pid = s /\ t = c.topic => LeavesAfter(s, t, 0)'
    BY <1>1, <1>2, <2>1, <2>2 DEF LeaveInv, LeavesAfter
  <2>3. Remaining(s)' = Remaining(s) /\ s \in Subscribers
    BY <1>2, <2>1 DEF Remaining
  <2>4. \A j \in 1 .. Len(queue) : queue[j].cmd = "unsubscribe" => queue[j].to = Broker
    BY Queued, Kinds DEF IndInv, Line
  <2>5. ASSUME NEW t, NEW i \in 0 .. Len(queue'), i # 0 => queue'[i].to = Broker,
               NEW o, i = 0 => o = 0, i # 0 => o = Old(i, k), LeavesAfter(s, t, o)
        PROVE  \/ LeavesAfter(s, t, i)'
               \/ i = 0 /\ c.cmd = "unsubscribe" /\ c.pid = s /\ c.topic = t
    <3>1. CASE t \in Remaining(s)
      BY <2>3, <3>1 DEF LeavesAfter
    <3>2. ASSUME NEW j \in 1 .. Len(queue), j > o, queue[j].cmd = "unsubscribe", queue[j].pid = s,
                 queue[j].topic = t
          PROVE  \/ LeavesAfter(s, t, i)'
                 \/ i = 0 /\ c.cmd = "unsubscribe" /\ c.pid = s /\ c.topic = t
      <4>1. CASE i = 0 /\ j = k
        BY <3>2, <4>1
      <4>2. CASE i = 0 /\ j # k
        <5>1. New(j, k) \in 1 .. Len(queue') /\ queue'[New(j, k)] = queue[j]
          BY <1>4, <4>2
        <5>2. New(j, k) > i
          BY <1>3, <4>2, <5>1, LenProperties
        <5>. QED
          BY <3>2, <5>1, <5>2 DEF LeavesAfter
      <4>3. CASE i # 0
        <5>1. i \in 1 .. Len(queue') /\ o = Old(i, k)
          BY <1>3, <2>5, <4>3, LenProperties
        <5>2. Old(i, k) > k /\ Old(i, k) \in 1 .. Len(queue)
          BY <1>4, <1>6, <2>5, <4>3, <5>1
        <5>3. j # k /\ j > Old(i, k)
          BY <1>3, <3>2, <5>1, <5>2
        <5>4. New(j, k) \in 1 .. Len(queue') /\ queue'[New(j, k)] = queue[j] /\ New(j, k) > i
          BY <1>4, <5>1, <5>3
        <5>. QED
          BY <3>2, <5>4 DEF LeavesAfter
      <4>. QED
        BY <4>1, <4>2, <4>3
    <3>. QED
      BY <2>5, <3>1, <3>2 DEF LeavesAfter
  <2>6. 0 \in 0 .. Len(queue') /\ \A i \in 1 .. Len(queue') : i \in 0 .. Len(queue') /\ i # 0
    BY <1>3, LenProperties
  <2>7. \A t \in ToSet(TopicsOf[s]) : IsListed(s, t) =>
             \/ LeavesAfter(s, t, 0)'
             \/ c.cmd = "unsubscribe" /\ c.pid = s /\ c.topic = t
    <3>1. \A t \in ToSet(TopicsOf[s]) : IsListed(s, t) => LeavesAfter(s, t, 0)
      BY <1>1 DEF IndInv, LeaveInv
    <3>. QED
      BY <2>5, <2>6, <3>1
  <2>8. ASSUME NEW i \in 1 .. Len(queue'), NEW t, t = queue'[i].topic,
               queue'[i].cmd = "subscribe", queue'[i].pid = s
        PROVE  LeavesAfter(s, t, i)'
    <3>1. Old(i, k) \in 1 .. Len(queue) /\ queue'[i] = queue[Old(i, k)]
      BY <1>4
    <3>2. queue'[i].to = Broker
      BY <2>8, <3>1, Queued, Kinds DEF IndInv, Line
    <3>3. LeavesAfter(s, t, Old(i, k))
      BY <2>8, <3>1 DEF IndInv, LeaveInv
    <3>. QED
      BY <2>5, <2>6, <3>2, <3>3
  <2>9. ASSUME NEW t, c.cmd = "subscribe", c.pid = s, t = c.topic PROVE LeavesAfter(s, t, 0)'
    <3>1. LeavesAfter(s, t, k)
      BY <1>3, <2>9 DEF IndInv, LeaveInv
    <3>2. LeavesAfter(s, t, 0)
      BY <1>3, <3>1, Queued DEF LeavesAfter, IndInv
    <3>. QED
      BY <2>5, <2>6, <2>9, <3>2
  <2>. QED
    BY <2>7, <2>8, <2>9
<1>12. \A s \in Subscribers : \A i \in 1 .. Len(queue') : \A o : o = Old(i, k) /\ AllAsked(s, o) => AllAsked(s, i)'
  BY <1>4 DEF AllAsked
<1>13. RequestInv'
  <2>. SUFFICES ASSUME NEW s \in Subscribers, pc[s] \in {"start", "s_sub"} \union Listening
                PROVE  /\ pc[s] # "start" =>
                             \A i \in 1 .. Len(TopicsOf[s]) :
                                 (pc[s] = "s_sub" => i < idx[s]) => Requested(s, TopicsOf[s][i])'
                       /\ \A i \in 1 .. Len(queue') : queue'[i].pid = s => queue'[i].cmd = "subscribe"
                       /\ c.pid = s => c.cmd = "subscribe"
                       /\ pc[s] \notin Listening => expected[s] = {}
    BY <1>2 DEF RequestInv, Requested, IsListed, history
  <2>1. /\ pc[s] # "start" =>
             \A i \in 1 .. Len(TopicsOf[s]) :
                 (pc[s] = "s_sub" => i < idx[s]) => Requested(s, TopicsOf[s][i])
        /\ \A i \in 1 .. Len(queue) : queue[i].pid = s => queue[i].cmd = "subscribe"
        /\ pc[s] \notin Listening => expected[s] = {}
    BY <1>1 DEF IndInv, ListenInv, RequestInv
  <2>2. ASSUME NEW t, Requested(s, t) PROVE Requested(s, t)'
    <3>1. CASE IsListed(s, t)
      BY <3>1 DEF Requested, IsListed
    <3>2. ASSUME NEW j \in 1 .. Len(queue), queue[j].cmd = "subscribe", queue[j].pid = s, queue[j].topic = t
          PROVE  Requested(s, t)'
      <4>1. CASE j = k
        BY <1>1, <3>2, <4>1 DEF Requested
      <4>2. CASE j # k
        <5>1. New(j, k) \in 1 .. Len(queue') /\ queue'[New(j, k)] = queue[j]
          BY <1>4, <4>2
        <5>. QED
          BY <3>2, <5>1 DEF Requested
      <4>. QED
        BY <4>1, <4>2
    <3>. QED
      BY <1>1, <2>2, <3>1, <3>2 DEF Requested
  <2>3. \A i \in 1 .. Len(queue') : queue'[i].pid = s => queue'[i].cmd = "subscribe"
    BY <1>4, <2>1
  <2>. QED
    BY <1>3, <2>1, <2>2, <2>3
<1>14. BehindInv'
  <2>. SUFFICES ASSUME NEW s \in Subscribers, pc[s] \in Listening, NEW e \in expected[s]
                PROVE  /\ \A i \in 1 .. Len(queue') : queue'[i].to = Broker /\ IsIt(queue'[i], e) => AllAsked(s, i)'
                       /\ IsIt(c, e) => AllAsked(s, 0)'
    BY <1>2 DEF BehindInv, IsIt, Line, AllAsked, history
  <2>1. \A i \in 1 .. Len(queue) : queue[i].to = Broker /\ IsIt(queue[i], e) => AllAsked(s, i)
    BY DEF IndInv, ListenInv, BehindInv
  <2>2. ASSUME NEW i \in 1 .. Len(queue'), queue'[i].to = Broker, IsIt(queue'[i], e) PROVE AllAsked(s, i)'
    <3>1. Old(i, k) \in 1 .. Len(queue) /\ queue'[i] = queue[Old(i, k)]
      BY <1>4
    <3>. QED
      BY <1>12, <2>1, <2>2, <3>1
  <2>3. ASSUME IsIt(c, e) PROVE AllAsked(s, 0)'
    <3>1. AllAsked(s, k)
      BY <1>3, <2>1, <2>3
    <3>2. ASSUME NEW j \in 1 .. Len(queue'), queue'[j].pid = s, queue'[j].cmd = "subscribe" PROVE FALSE
      <4>1. Old(j, k) \in 1 .. Len(queue) /\ queue'[j] = queue[Old(j, k)]
        BY <1>4
      <4>2. queue'[j].to = Broker
        BY <3>2, <4>1, Queued, Kinds DEF IndInv, Line
      <4>3. Old(j, k) > k
        BY <1>6, <4>2
      <4>. QED
        BY <3>1, <3>2, <4>1, <4>3 DEF AllAsked
    <3>. QED
      BY <3>2 DEF AllAsked
  <2>. QED
    BY <2>2, <2>3
<1>15. FoundInv'
  <2>. SUFFICES ASSUME ~exit_flag[Broker], NEW s \in Subscribers, pc[s] \in Listening, NEW e \in expected[s]
                PROVE  Found(s, e)'
    BY <1>2 DEF FoundInv, history
  <2>1. Found(s, e)
    BY <1>1 DEF IndInv, ListenInv, FoundInv
  <2>2. ASSUME NEW i \in 1 .. Len(received[s]), IsIt(received[s][i], e) PROVE Found(s, e)'
    BY <2>2 DEF Found, IsIt, Line, history
  <2>3. ASSUME NEW i \in 1 .. Len(queue), queue[i].to \in {s, Broker}, IsIt(queue[i], e) PROVE Found(s, e)'
    <3>1. CASE i = k
      <4>1. AtWork' /\ StillToServe(s)' /\ IsIt(c, e)
        BY <1>1, <2>3, <3>1 DEF AtWork, StillToServe
      <4>. QED
        BY <4>1 DEF Found, IsIt, Line
    <3>2. CASE i # k
      <4>1. New(i, k) \in 1 .. Len(queue') /\ queue'[New(i, k)] = queue[i]
        BY <1>4, <3>2
      <4>. QED
        BY <2>3, <4>1 DEF Found, IsIt, Line
    <3>. QED
      BY <3>1, <3>2
  <2>. QED
    BY <1>2, <2>1, <2>2, <2>3 DEF Found
<1>. QED
  BY <1>8, <1>9, <1>10, <1>11, <1>13, <1>14, <1>15 DEF IndInv, ListenInv

LEMMA BrokerReceiveStep ==
  ASSUME IndInv, BrokerReceive
  PROVE  IndInv'
BY BrokerReceives DEF BrokerReceive

\* The oldest message to a subscriber is a line that follows what it has printed.
LEMMA SubscriberReceives ==
  ASSUME IndInv, NEW s \in Subscribers, NEW k \in DOMAIN queue, Receive(s, "s_recv", k), NEW c, c = queue[k],
         received' = [received EXCEPT ![s] = Append(@, c)], Goto(s, "s_check"),
         UNCHANGED <<exit_flag, idx, qstate, lists, users, expected, unsubbed>>
  PROVE  IndInv'
<1>1. /\ pc[s] = "s_recv" /\ qstate = "live" /\ asleep' = asleep \ {s}
      /\ pc'[s] = "s_check" /\ \A q \in Procs : q # s => pc'[q] = pc[q]
      /\ pc' \in [Procs -> BrokerPcs \union PublisherPcs \union SubscriberPcs]
  BY PcMoves, Processes DEF IndInv, TypeInv, PcInv, Goto, SubscriberPcs, Receive
<1>2. /\ \A r \in Subscribers : (pc'[r] \in Listening <=> pc[r] \in Listening) /\ (r # s => pc'[r] = pc[r])
      /\ \A p \in Publishers : pc'[p] = pc[p]
      /\ pc'[Broker] = pc[Broker]
  BY <1>1, Processes DEF Listening
<1>3. /\ k \in 1 .. Len(queue) /\ c.to = s
      /\ \A j \in 1 .. Len(queue) : queue[j].to = s => k <= j
      /\ queue' \in Seq(Posted \union Delivered \union Asked) /\ Len(queue') <= QueueCap
      /\ QueueOrder'
  BY Taken
<1>4. /\ \A i \in 1 .. Len(queue') : /\ Old(i, k) \in 1 .. Len(queue) /\ Old(i, k) # k
                                     /\ queue'[i] = queue[Old(i, k)]
      /\ \A i, j \in 1 .. Len(queue') : i < j => Old(i, k) < Old(j, k)
      /\ \A j \in 1 .. Len(queue) : j # k => New(j, k) \in 1 .. Len(queue') /\ queue'[New(j, k)] = queue[j]
      /\ \A i \in 1 .. Len(queue') : \A j \in 1 .. Len(queue) :
            j # k /\ j > Old(i, k) => New(j, k) > i
  BY Taken
<1>5. Len(queue) \in Nat /\ Len(queue') \in Nat
  BY <1>3, Queued, LenProperties DEF IndInv
<1>6. \A i \in 1 .. Len(queue') : queue'[i].to = s => k < Old(i, k)
  BY <1>3, <1>4, <1>5
<1>7. c \in Delivered /\ c.cmd = "send" /\ Line(c) /\ c.pid \in Publishers /\ c.to # Broker
  BY <1>3, Queued, Kinds, Processes DEF IndInv, Line
<1>8. /\ received \in [Subscribers -> Seq(Delivered)] /\ received' \in [Subscribers -> Seq(Delivered)]
      /\ received'[s] = Append(received[s], c) /\ \A r \in Subscribers : r # s => received'[r] = received[r]
  <2>1. received \in [Subscribers -> Seq(Delivered)]
    BY DEF IndInv, TypeInv, HistoryInv
  <2>2. Append(received[s], c) \in Seq(Delivered)
    BY <1>7, <2>1, PutLast
  <2>. QED
    BY <2>1, <2>2
<1>9. /\ Len(received[s]) \in Nat /\ Len(received'[s]) = Len(received[s]) + 1
      /\ \A i \in 1 .. Len(received[s]) : received'[s][i] = received[s][i]
      /\ received'[s][Len(received[s]) + 1] = c
  BY <1>7, <1>8, PutLast
<1>10. ASSUME NEW r \in Subscribers, NEW i \in 1 .. Len(received'[r])
       PROVE  \/ i \in 1 .. Len(received[r]) /\ received'[r][i] = received[r][i]
              \/ r = s /\ i = Len(received[s]) + 1 /\ received'[r][i] = c
  BY <1>8, <1>9
<1>11. TypeInv'
  <2>1. PcInv'
    BY <1>1, <1>2, Processes DEF IndInv, TypeInv, PcInv, SubscriberPcs
  <2>2. IdxInv'
    BY <1>1, <1>2 DEF IndInv, TypeInv, IdxInv, Listening
  <2>3. DataInv'
    BY <1>2, <1>3 DEF IndInv, TypeInv, DataInv, lists, users
  <2>4. HistoryInv'
    <3>1. \A r \in Subscribers : \A i \in 1 .. Len(received'[r]) : received'[r][i].to = r
      BY <1>3, <1>10 DEF IndInv, TypeInv, HistoryInv
    <3>. QED
      BY <1>8, <3>1 DEF IndInv, TypeInv, HistoryInv
  <2>. QED
    BY <2>1, <2>2, <2>3, <2>4 DEF TypeInv
<1>12. QueueInv' /\ ArrayInv'
  BY <1>1, <1>2 DEF IndInv, QueueInv, ArrayInv, lists
<1>13. OrderInv'
  <2>1. \A p \in Publishers : PublisherQuiet(p)
    BY <1>2 DEF PublisherQuiet, users
  <2>2. \A m \in Messages : m.pid \in Publishers /\ Sent(m) => Sent(m)'
    BY <2>1, SentStays DEF IndInv
  <2>3. \A m \in Messages : Line(m) /\ (\E j \in 1 .. Len(queue) : m = queue[j]) => Sent(m)'
    BY <2>2, Queued DEF IndInv, OrderInv, SentInv
  <2>4. SentInv'
    <3>1. ASSUME NEW i \in 1 .. Len(queue'), NEW m, m = queue'[i], Line(m) PROVE Sent(m)'
      <4>1. m = queue[Old(i, k)] /\ Old(i, k) \in 1 .. Len(queue) /\ m \in Messages
        BY <1>4, <3>1, Queued DEF IndInv
      <4>. QED
        BY <2>3, <3>1, <4>1
    <3>2. Line(cur) => Sent(cur)'
      BY <2>2, Queued DEF IndInv, OrderInv, SentInv, lists
    <3>3. ASSUME NEW r \in Subscribers, NEW i \in 1 .. Len(received'[r]), NEW m, m = received'[r][i]
          PROVE  Sent(m)'
      <4>1. CASE i \in 1 .. Len(received[r]) /\ m = received[r][i]
        BY <2>2, <4>1, Queued, Kinds DEF IndInv, OrderInv, SentInv
      <4>2. CASE m = c
        BY <1>3, <1>7, <2>3, <4>2, Kinds
      <4>. QED
        BY <1>10, <3>3, <4>1, <4>2
    <3>. QED
      BY <3>1, <3>2, <3>3 DEF SentInv, Sent, Line, lists
  <2>5. ReceivedOrder'
    <3>. SUFFICES ASSUME NEW r \in Subscribers, NEW i \in 1 .. Len(received'[r])
                  PROVE  /\ \A j \in 1 .. Len(received'[r]) : i < j => Before(received'[r][i], received'[r][j])
                         /\ \A j \in 1 .. Len(queue') : Line(queue'[j]) /\ queue'[j].to \in {r, Broker}
                                 => Before(received'[r][i], queue'[j])
      BY DEF ReceivedOrder, Before, Line
    <3>1. CASE i \in 1 .. Len(received[r]) /\ received'[r][i] = received[r][i]
      <4>1. ASSUME NEW j \in 1 .. Len(received'[r]), i < j PROVE Before(received'[r][i], received'[r][j])
        <5>1. CASE j \in 1 .. Len(received[r]) /\ received'[r][j] = received[r][j]
          BY <3>1, <4>1, <5>1 DEF IndInv, OrderInv, ReceivedOrder
        <5>2. CASE r = s /\ received'[r][j] = c
          BY <1>3, <1>7, <3>1, <5>2 DEF IndInv, OrderInv, ReceivedOrder
        <5>. QED
          BY <1>10, <5>1, <5>2
      <4>2. ASSUME NEW j \in 1 .. Len(queue'), Line(queue'[j]), queue'[j].to \in {r, Broker}
            PROVE  Before(received'[r][i], queue'[j])
        BY <1>4, <3>1, <4>2 DEF IndInv, OrderInv, ReceivedOrder
      <4>. QED
        BY <4>1, <4>2
    <3>2. CASE r = s /\ i = Len(received[s]) + 1 /\ received'[r][i] = c
      <4>1. \A j \in 1 .. Len(received'[r]) : ~(i < j)
        BY <1>9, <3>2
      <4>2. ASSUME NEW j \in 1 .. Len(queue'), Line(queue'[j]), queue'[j].to \in {r, Broker}
            PROVE  Before(c, queue'[j])
        <5>1. Old(j, k) \in 1 .. Len(queue) /\ queue'[j] = queue[Old(j, k)]
          BY <1>4
        <5>2. queue'[j].to = s => k < Old(j, k)
          BY <1>6
        <5>. QED
          BY <1>3, <1>7, <3>2, <4>2, <5>1, <5>2 DEF IndInv, OrderInv, QueueOrder
      <4>. QED
        BY <3>2, <4>1, <4>2
    <3>. QED
      BY <1>10, <3>1, <3>2
  <2>6. CurrentOrder'
    <3>1. \A r : StillToServe(r)' <=> StillToServe(r)
      BY <1>2 DEF StillToServe, lists
    <3>. SUFFICES ASSUME AtWork, Line(cur)
                  PROVE  /\ \A j \in 1 .. Len(queue') : Line(queue'[j]) =>
                              /\ queue'[j].to = Broker => Before(cur, queue'[j])
                              /\ queue'[j].to # Broker /\ StillToServe(queue'[j].to) => Before(queue'[j], cur)
                         /\ \A r \in Subscribers : \A i \in 1 .. Len(received'[r]) :
                              StillToServe(r) => Before(received'[r][i], cur)
      BY <1>2 DEF CurrentOrder, Before, Line, lists, AtWork, StillToServe
    <3>2. \A j \in 1 .. Len(queue') : Line(queue'[j]) =>
             /\ queue'[j].to = Broker => Before(cur, queue'[j])
             /\ queue'[j].to # Broker /\ StillToServe(queue'[j].to) => Before(queue'[j], cur)
      BY <1>4 DEF IndInv, OrderInv, CurrentOrder
    <3>3. ASSUME NEW r \in Subscribers, NEW i \in 1 .. Len(received'[r]), StillToServe(r)
          PROVE  Before(received'[r][i], cur)
      <4>1. CASE i \in 1 .. Len(received[r]) /\ received'[r][i] = received[r][i]
        BY <3>3, <4>1 DEF IndInv, OrderInv, CurrentOrder
      <4>2. CASE r = s /\ received'[r][i] = c
        BY <1>3, <1>7, <3>3, <4>2 DEF IndInv, OrderInv, CurrentOrder
      <4>. QED
        BY <1>10, <4>1, <4>2
    <3>. QED
      BY <3>2, <3>3
  <2>. QED
    BY <1>3, <2>4, <2>5, <2>6 DEF OrderInv
<1>14. \A j \in 1 .. Len(queue) : queue[j].cmd # "send" =>
          /\ New(j, k) \in 1 .. Len(queue') /\ queue'[New(j, k)] = queue[j]
          /\ \A i \in 1 .. Len(queue') : j > Old(i, k) => New(j, k) > i
  BY <1>3, <1>4, <1>7
<1>15. LeaveInv'
  <2>1. unsubbed \subseteq Subscribers
    BY DEF IndInv, TypeInv, HistoryInv
  <2>2. \A r, t : IsListed(r, t)' <=> IsListed(r, t)
    BY DEF IsListed, lists
  <2>3. \A r \in Subscribers : (pc'[r] = "failed" <=> pc[r] = "failed") /\ Remaining(r)' = Remaining(r)
    <3>1. \A r \in Subscribers : r # s => Remaining(r)' = Remaining(r)
      BY <1>2 DEF Remaining
    <3>2. Remaining(s)' = Remaining(s)
      BY <1>1 DEF Remaining, Listening
    <3>. QED
      BY <1>1, <1>2, <3>1, <3>2
  <2>4. ASSUME NEW r \in unsubbed, NEW t, LeavesAfter(r, t, 0) PROVE LeavesAfter(r, t, 0)'
    <3>1. ASSUME NEW j \in 1 .. Len(queue), queue[j].cmd = "unsubscribe", queue[j].pid = r, queue[j].topic = t
          PROVE  LeavesAfter(r, t, 0)'
      <4>1. New(j, k) \in 1 .. Len(queue') /\ queue'[New(j, k)] = queue[j]
        BY <1>14, <3>1
      <4>2. New(j, k) > 0
        BY <1>5, <4>1
      <4>. QED
        BY <3>1, <4>1, <4>2 DEF LeavesAfter
    <3>. QED
      BY <2>1, <2>3, <2>4, <3>1 DEF LeavesAfter
  <2>5. ASSUME NEW r \in unsubbed, NEW t, NEW i \in 1 .. Len(queue'), NEW o, o = Old(i, k), LeavesAfter(r, t, o)
        PROVE  LeavesAfter(r, t, i)'
    <3>1. ASSUME NEW j \in 1 .. Len(queue), j > o, queue[j].cmd = "unsubscribe", queue[j].pid = r,
                 queue[j].topic = t
          PROVE  LeavesAfter(r, t, i)'
      <4>1. New(j, k) \in 1 .. Len(queue') /\ queue'[New(j, k)] = queue[j] /\ New(j, k) > i
        BY <1>14, <2>5, <3>1
      <4>. QED
        BY <3>1, <4>1 DEF LeavesAfter
    <3>. QED
      BY <2>1, <2>3, <2>5, <3>1 DEF LeavesAfter
  <2>. SUFFICES ASSUME NEW r \in unsubbed, pc[r] # "failed"
                PROVE  /\ \A t \in ToSet(TopicsOf[r]) : IsListed(r, t) =>
                             \/ LeavesAfter(r, t, 0)'
                             \/ pc[Broker] = "b_process" /\ cur.cmd = "unsubscribe" /\ cur.pid = r /\ cur.topic = t
                       /\ \A i \in 1 .. Len(queue') : \A t : t = queue'[i].topic =>
                             (queue'[i].cmd = "subscribe" /\ queue'[i].pid = r => LeavesAfter(r, t, i)')
                       /\ \A t : pc[Broker] = "b_process" /\ cur.cmd = "subscribe" /\ cur.pid = r /\ t = cur.topic
                             => LeavesAfter(r, t, 0)'
    <3>1. \A r \in unsubbed : pc'[r] # "failed" => pc[r] # "failed"
      BY <2>1, <2>3
    <3>2. UNCHANGED <<cur, unsubbed>>
      BY DEF lists
    <3>. QED
      BY <1>2, <2>2, <3>1, <3>2 DEF LeaveInv, LeavesAfter
  <2>6. \A t \in ToSet(TopicsOf[r]) : IsListed(r, t) =>
             \/ LeavesAfter(r, t, 0)'
             \/ pc[Broker] = "b_process" /\ cur.cmd = "unsubscribe" /\ cur.pid = r /\ cur.topic = t
    BY <2>4 DEF IndInv, LeaveInv
  <2>7. ASSUME NEW i \in 1 .. Len(queue'), NEW t, t = queue'[i].topic,
               queue'[i].cmd = "subscribe", queue'[i].pid = r
        PROVE  LeavesAfter(r, t, i)'
    <3>1. Old(i, k) \in 1 .. Len(queue) /\ queue'[i] = queue[Old(i, k)]
      BY <1>4
    <3>2. LeavesAfter(r, t, Old(i, k))
      BY <2>7, <3>1 DEF IndInv, LeaveInv
    <3>. QED
      BY <2>5, <3>2
  <2>8. ASSUME pc[Broker] = "b_process", cur.cmd = "subscribe", cur.pid = r, NEW t, t = cur.topic
        PROVE  LeavesAfter(r, t, 0)'
    BY <2>4, <2>8 DEF IndInv, LeaveInv
  <2>. QED
    BY <2>6, <2>7, <2>8 DEF lists
<1>16. RequestInv'
  <2>1. \A r \in Subscribers : pc'[r] = "s_sub" => pc[r] = "s_sub"
    BY <1>1, <1>2
  <2>2. ASSUME NEW r, NEW t, Requested(r, t) PROVE Requested(r, t)'
    <3>1. ASSUME NEW j \in 1 .. Len(queue), queue[j].cmd = "subscribe", queue[j].pid = r, queue[j].topic = t
          PROVE  Requested(r, t)'
      <4>1. New(j, k) \in 1 .. Len(queue') /\ queue'[New(j, k)] = queue[j]
        BY <1>14, <3>1
      <4>. QED
        BY <3>1, <4>1 DEF Requested
    <3>. QED
      BY <1>2, <2>2, <3>1 DEF Requested, IsListed, lists
  <2>. SUFFICES ASSUME NEW r \in Subscribers, pc'[r] \in {"start", "s_sub"} \union Listening
                PROVE  /\ pc'[r] # "start" =>
                             \A i \in 1 .. Len(TopicsOf[r]) :
                                 (pc'[r] = "s_sub" => i < idx[r]) => Requested(r, TopicsOf[r][i])'
                       /\ \A i \in 1 .. Len(queue') : queue'[i].pid = r => queue'[i].cmd = "subscribe"
                       /\ cur.pid = r => cur.cmd = "subscribe"
                       /\ pc'[r] \notin Listening => expected[r] = {}
    BY DEF RequestInv, Requested, IsListed, lists
  <2>3. /\ pc[r] \in {"start", "s_sub"} \union Listening
        /\ pc[r] = "start" <=> pc'[r] = "start"
        /\ pc[r] = "s_sub" <=> pc'[r] = "s_sub"
    BY <1>1, <1>2 DEF Listening
  <2>4. /\ pc[r] # "start" =>
             \A i \in 1 .. Len(TopicsOf[r]) :
                 (pc[r] = "s_sub" => i < idx[r]) => Requested(r, TopicsOf[r][i])
        /\ \A i \in 1 .. Len(queue) : queue[i].pid = r => queue[i].cmd = "subscribe"
        /\ cur.pid = r => cur.cmd = "subscribe"
        /\ pc[r] \notin Listening => expected[r] = {}
    BY <1>1, <2>3 DEF IndInv, ListenInv, RequestInv
  <2>5. \A i \in 1 .. Len(queue') : queue'[i].pid = r => queue'[i].cmd = "subscribe"
    BY <1>4, <2>4
  <2>. QED
    BY <1>2, <2>2, <2>3, <2>4, <2>5
<1>17. BehindInv'
  <2>1. \A r \in Subscribers : \A i \in 1 .. Len(queue') : \A o : o = Old(i, k) /\ AllAsked(r, o) => AllAsked(r, i)'
    BY <1>4 DEF AllAsked
  <2>2. ASSUME NEW r \in Subscribers, AllAsked(r, 0) PROVE AllAsked(r, 0)'
    <3>1. \A j \in 1 .. Len(queue) : queue[j].pid = r => queue[j].cmd # "subscribe"
      BY <1>5, <2>2 DEF AllAsked
    <3>2. \A j \in 1 .. Len(queue') : queue'[j].pid = r => queue'[j].cmd # "subscribe"
      BY <1>4, <3>1
    <3>. QED
      BY <3>2 DEF AllAsked
  <2>. SUFFICES ASSUME NEW r \in Subscribers, pc[r] \in Listening, NEW e \in expected[r]
                PROVE  /\ \A i \in 1 .. Len(queue') : queue'[i].to = Broker /\ IsIt(queue'[i], e) => AllAsked(r, i)'
                       /\ AtWork /\ IsIt(cur, e) => AllAsked(r, 0)'
    BY <1>2 DEF BehindInv, IsIt, Line, AllAsked, AtWork, lists
  <2>3. /\ \A i \in 1 .. Len(queue) : queue[i].to = Broker /\ IsIt(queue[i], e) => AllAsked(r, i)
        /\ AtWork /\ IsIt(cur, e) => AllAsked(r, 0)
    BY DEF IndInv, ListenInv, BehindInv
  <2>. QED
    BY <1>4, <2>1, <2>2, <2>3
<1>18. FoundInv'
  <2>. SUFFICES ASSUME ~exit_flag[Broker], NEW r \in Subscribers, pc[r] \in Listening, NEW e \in expected[r]
                PROVE  Found(r, e)'
    BY <1>2 DEF FoundInv
  <2>1. Found(r, e)
    BY <1>1 DEF IndInv, ListenInv, FoundInv
  <2>2. ASSUME NEW i \in 1 .. Len(received[r]), IsIt(received[r][i], e) PROVE Found(r, e)'
    <3>1. i \in 1 .. Len(received'[r]) /\ received'[r][i] = received[r][i]
      BY <1>8, <1>9
    <3>. QED
      BY <2>2, <3>1 DEF Found, IsIt, Line
  <2>3. ASSUME NEW i \in 1 .. Len(queue), queue[i].to \in {r, Broker}, IsIt(queue[i], e) PROVE Found(r, e)'
    <3>1. CASE i = k
      <4>1. r = s /\ IsIt(c, e) /\ Len(received[s]) + 1 \in 1 .. Len(received'[s])
        BY <1>3, <1>7, <1>9, <2>3, <3>1
      <4>. QED
        BY <1>9, <4>1 DEF Found, IsIt, Line
    <3>2. CASE i # k
      <4>1. New(i, k) \in 1 .. Len(queue') /\ queue'[New(i, k)] = queue[i]
        BY <1>4, <3>2
      <4>. QED
        BY <2>3, <4>1 DEF Found, IsIt, Line
    <3>. QED
      BY <3>1, <3>2
  <2>4. ASSUME AtWork, IsIt(cur, e), StillToServe(r) PROVE Found(r, e)'
    <3>1. AtWork' /\ StillToServe(r)'
      BY <1>2, <2>4 DEF AtWork, StillToServe, lists
    <3>. QED
      BY <2>4, <3>1 DEF Found, IsIt, Line, lists
  <2>. QED
    BY <2>1, <2>2, <2>3, <2>4 DEF Found
<1>. QED
  BY <1>11, <1>12, <1>13, <1>15, <1>16, <1>17, <1>18 DEF IndInv, ListenInv

LEMMA SubscriberReceiveStep ==
  ASSUME IndInv, NEW s \in Subscribers, SubscriberReceive(s)
  PROVE  IndInv'
BY SubscriberReceives DEF SubscriberReceive

-----------------------------------------------------------------------------
(* The theorems *)

LEMMA NextInv == IndInv /\ [Next]_vars => IndInv'
<1>. SUFFICES ASSUME IndInv, [Next]_vars PROVE IndInv'
  OBVIOUS
<1>1. CASE broker_mode
  <2>1. CASE BrokerStart
    BY <2>1, BrokerStartStep
  <2>2. CASE BrokerCheck
    BY <2>2, BrokerCheckStep
  <2>3. CASE BrokerReceive
    BY <2>3, BrokerReceiveStep
  <2>4. CASE ReceiveBlocks(Broker, "b_recv")
    BY <2>4, Processes, ReceiveBlocksStep
  <2>5. CASE ProcessMessage
    BY <2>5, ProcessMessageStep
  <2>6. CASE Forward
    BY <2>6, ForwardStep
  <2>7. CASE ForwardBlocks
    BY <2>7, ForwardBlocksStep
  <2>8. CASE ForwardSkip
    BY <2>8, ForwardSkipStep
  <2>9. CASE CleanupKill
    BY <2>9, CleanupKillStep
  <2>10. CASE CleanupRemove
    BY <2>10, CleanupRemoveStep
  <2>. QED
    BY <1>1, <2>1, <2>2, <2>3, <2>4, <2>5, <2>6, <2>7, <2>8, <2>9, <2>10 DEF broker_mode
<1>2. ASSUME NEW p \in Publishers, publisher_mode(p) PROVE IndInv'
  <2>1. CASE Attach(p, "p_check")
    BY <2>1, AttachPublisher
  <2>2. CASE ReadLine(p)
    BY <2>2, ReadLineStep
  <2>3. CASE TypeLine(p)
    BY <2>3, TypeLineStep
  <2>4. CASE Publish(p)
    BY <2>4, PublishStep
  <2>5. CASE SendBlocks(p, "p_send")
    BY <2>5, Processes, SendBlocksStep
  <2>6. CASE PublishFails(p)
    BY <2>6, PublishFailsStep
  <2>. QED
    BY <1>2, <2>1, <2>2, <2>3, <2>4, <2>5, <2>6 DEF publisher_mode
<1>3. ASSUME NEW s \in Subscribers, subscriber_mode(s) PROVE IndInv'
  <2>1. CASE Attach(s, "s_sub")
    BY <2>1, AttachSubscriber
  <2>2. CASE Subscribe(s)
    BY <2>2, SubscribeStep
  <2>3. CASE SendBlocks(s, "s_sub")
    BY <2>3, Processes, SendBlocksStep
  <2>4. CASE SubscribeFails(s)
    BY <2>4, SubscribeFailsStep
  <2>5. CASE SubscriberCheck(s)
    BY <2>5, SubscriberCheckStep
  <2>6. CASE SubscriberReceive(s)
    BY <2>6, SubscriberReceiveStep
  <2>7. CASE ReceiveBlocks(s, "s_recv")
    BY <2>7, Processes, ReceiveBlocksStep
  <2>8. CASE SubscriberReceiveFails(s)
    BY <2>8, SubscriberReceiveFailsStep
  <2>9. CASE Unsubscribe(s)
    BY <2>9, UnsubscribeStep
  <2>10. CASE UnsubscribeBlocks(s)
    BY <2>10, Processes, SendBlocksStep DEF UnsubscribeBlocks
  <2>11. CASE SubscriberEnd(s)
    BY <2>11, SubscriberEndStep
  <2>. QED
    BY <1>3, <2>1, <2>2, <2>3, <2>4, <2>5, <2>6, <2>7, <2>8, <2>9, <2>10, <2>11 DEF subscriber_mode
<1>4. ASSUME NEW p \in CtrlCTargets, CtrlC(p) PROVE IndInv'
  BY <1>4, CtrlCStep
<1>5. CASE UNCHANGED vars
  <2>. USE <1>5 DEF vars, lists, users, history
  <2>1. TypeInv' /\ QueueInv' /\ ArrayInv'
    <3>1. PcInv' /\ IdxInv'
      BY DEF IndInv, TypeInv, PcInv, IdxInv
    <3>2. DataInv'
      BY DEF IndInv, TypeInv, DataInv
    <3>3. HistoryInv'
      BY DEF IndInv, TypeInv, HistoryInv
    <3>4. QueueInv' /\ ArrayInv'
      BY DEF IndInv, QueueInv, ArrayInv
    <3>. QED
      BY <3>1, <3>2, <3>3, <3>4 DEF TypeInv
  <2>2. \A p \in Publishers : PublisherQuiet(p)
    BY DEF PublisherQuiet
  <2>3. \A s \in Subscribers : SubscriberQuiet(s)
    BY DEF SubscriberQuiet, Remaining
  <2>4. BrokerQuiet
    <3>1. idx[Broker] \in Nat
      BY Processes DEF IndInv, TypeInv, IdxInv
    <3>. QED
      BY <3>1 DEF BrokerQuiet
  <2>5. OrderInv' /\ LeaveInv' /\ RequestInv' /\ BehindInv' /\ FoundInv'
    BY <2>2, <2>3, <2>4, QuietOrder, QuietLeave, QuietRequests, QuietFound
  <2>. QED
    BY <2>1, <2>5 DEF IndInv, ListenInv
<1>. QED
  BY <1>1, <1>2, <1>3, <1>4, <1>5 DEF Next

LEMMA Invariance == Spec => []IndInv
BY InitInv, NextInv, PTL DEF Spec

\* Every variable keeps its type, and no sender overfills the queue.
THEOREM TypeCorrect == Spec => []TypeOK
<1>1. IndInv => TypeOK
  <2>. SUFFICES ASSUME IndInv PROVE TypeOK
    OBVIOUS
  <2>1. Posted \union Delivered \union Asked \subseteq Messages
    BY Kinds
  <2>2. queue \in Seq(Messages) /\ Len(queue) <= QueueCap
    BY <2>1, SeqMonotonic DEF IndInv, TypeInv, DataInv
  <2>3. \A s \in Subscribers : received[s] \in Seq(Messages)
    BY <2>1, SeqMonotonic DEF IndInv, TypeInv, HistoryInv
  <2>4. received \in [Subscribers -> Seq(Messages)]
    BY <2>3 DEF IndInv, TypeInv, HistoryInv
  <2>5. Entries \subseteq [pid : Subscribers, topics : SUBSET Topics]
    BY DEF Entries
  <2>6. subscribers \in Seq([pid : Subscribers, topics : SUBSET Topics])
    BY <2>5, SeqMonotonic DEF IndInv, TypeInv, DataInv
  <2>7. /\ pc \in [Procs -> {"start", "b_check", "b_recv", "b_process", "b_forward",
                             "b_kill", "b_rmid", "p_check", "p_fgets", "p_send",
                             "s_sub", "s_check", "s_recv", "s_unsub"} \union Ended]
        /\ asleep \subseteq Procs /\ exit_flag \in [Procs -> BOOLEAN]
    <3>1. BrokerPcs \union PublisherPcs \union SubscriberPcs
             = {"start", "b_check", "b_recv", "b_process", "b_forward",
                "b_kill", "b_rmid", "p_check", "p_fgets", "p_send",
                "s_sub", "s_check", "s_recv", "s_unsub"} \union Ended
      BY DEF BrokerPcs, PublisherPcs, SubscriberPcs, Ended
    <3>. QED
      BY <3>1 DEF IndInv, TypeInv, PcInv
  <2>8. idx \in [Procs -> Nat \ {0}] /\ qstate \in {"none", "live", "gone"}
    BY DEF IndInv, TypeInv, IdxInv, QueueInv
  <2>9. /\ publishers \subseteq Publishers /\ cur \in Messages
        /\ lines \in [Publishers -> 0 .. MaxLines] /\ signals \in 0 .. MaxSignals
    BY Queued DEF IndInv, TypeInv, DataInv
  <2>10. /\ expected \in [Subscribers -> SUBSET (Publishers \X (1 .. MaxLines))]
         /\ unsubbed \subseteq Subscribers
    BY DEF IndInv, TypeInv, HistoryInv
  <2>. QED
    BY <2>2, <2>4, <2>6, <2>7, <2>8, <2>9, <2>10 DEF TypeOK
<1>. QED
  BY <1>1, Invariance, PTL

\* Whatever the load, the Ctrl-Cs and the ends of processes: a subscriber prints lines of
\* its own topics only, and those of one publisher once and in the order they were typed.
THEOREM TopicsInOrder == Spec => []InOrderOnTopic
<1>1. IndInv => InOrderOnTopic
  <2>. SUFFICES ASSUME IndInv, NEW s \in Subscribers, NEW i \in DOMAIN received[s], NEW j \in DOMAIN received[s]
                PROVE  /\ received[s][i].topic \in ToSet(TopicsOf[s])
                       /\ TopicOf[received[s][i].pid] = received[s][i].topic /\ received[s][i].n # 0
                       /\ i < j /\ received[s][i].pid = received[s][j].pid => received[s][i].n < received[s][j].n
    BY DEF InOrderOnTopic
  <2>1. DOMAIN received[s] = 1 .. Len(received[s])
    BY LenProperties DEF IndInv, TypeInv, HistoryInv
  <2>2. /\ received[s][i] \in Delivered /\ received[s][i].to = s
        /\ received[s][j] \in Delivered
    BY <2>1, Queued DEF IndInv
  <2>3. i < j => Before(received[s][i], received[s][j])
    BY <2>1 DEF IndInv, OrderInv, ReceivedOrder
  <2>4. received[s][j].n # 0 /\ received[s][i].n # 0
    BY <2>2, Kinds, Processes
  <2>. QED
    BY <2>2, <2>3, <2>4, Kinds DEF Before
<1>. QED
  BY <1>1, Invariance, PTL

\* While the broker lives and has seen no SIGINT, a line sent when a subscriber to its
\* topic was listening is printed, in the queue, or in the broker's hand on its way to it.
THEOREM NothingMissed == Spec => []NoMissedMessage
<1>1. IndInv => NoMissedMessage
  <2>. SUFFICES ASSUME IndInv, qstate = "live", ~exit_flag[Broker], NEW s \in Subscribers,
                       pc[s] \in Listening, NEW e \in expected[s]
                PROVE  \/ \E i \in DOMAIN received[s] : IsIt(received[s][i], e)
                       \/ \E i \in DOMAIN queue : queue[i].to \in {s, Broker} /\ IsIt(queue[i], e)
                       \/ IsIt(cur, e) /\ pc[Broker] = "b_process"
                       \/ /\ IsIt(cur, e) /\ pc[Broker] = "b_forward"
                          /\ \E i \in DOMAIN subscribers : subscribers[i].pid = s /\ i >= idx[Broker]
    BY DEF NoMissedMessage, IsIt, Line
  <2>1. /\ DOMAIN received[s] = 1 .. Len(received[s]) /\ DOMAIN queue = 1 .. Len(queue)
        /\ DOMAIN subscribers = 1 .. Len(subscribers)
    BY LenProperties DEF IndInv, TypeInv, HistoryInv, DataInv
  <2>2. Found(s, e)
    BY DEF IndInv, ListenInv, FoundInv
  <2>. QED
    BY <2>1, <2>2 DEF Found, AtWork, StillToServe
<1>. QED
  BY <1>1, Invariance, PTL

\* The broker's array holds each subscriber once and never without topics, and one that
\* has sent all its unsubscribe requests goes off it with the last of them.
THEOREM RegistryIsSound == Spec => []RegistrySound
<1>1. IndInv => RegistrySound
  <2>. SUFFICES ASSUME IndInv PROVE RegistrySound
    OBVIOUS
  <2>1. DOMAIN queue = 1 .. Len(queue) /\ DOMAIN subscribers = 1 .. Len(subscribers)
    BY LenProperties DEF IndInv, TypeInv, DataInv
  <2>2. \A i, j \in DOMAIN subscribers :
            /\ subscribers[i].topics # {}
            /\ subscribers[i].pid = subscribers[j].pid => i = j
    BY <2>1 DEF IndInv, ArrayInv
  <2>3. ASSUME NEW i \in DOMAIN subscribers, NEW s, s = subscribers[i].pid, pc[s] = "done", s \in unsubbed
        PROVE  \/ \E k \in DOMAIN queue : queue[k].pid = s /\ queue[k].cmd = "unsubscribe"
               \/ pc[Broker] = "b_process" /\ cur.pid = s /\ cur.cmd = "unsubscribe"
    <3>1. PICK t \in subscribers[i].topics : TRUE
      BY <2>2
    <3>2. s \in Subscribers /\ t \in ToSet(TopicsOf[s]) /\ IsListed(s, t)
      BY <2>1, <2>3, <3>1, Queued DEF IndInv, IsListed
    <3>3. t \notin Remaining(s)
      BY <2>3 DEF Remaining, Listening
    <3>4. \/ LeavesAfter(s, t, 0)
          \/ pc[Broker] = "b_process" /\ cur.cmd = "unsubscribe" /\ cur.pid = s /\ cur.topic = t
      BY <2>3, <3>2 DEF IndInv, LeaveInv
    <3>. QED
      BY <2>1, <3>3, <3>4 DEF LeavesAfter
  <2>. QED
    BY <2>2, <2>3 DEF RegistrySound
<1>. QED
  BY <1>1, Invariance, PTL

=============================================================================

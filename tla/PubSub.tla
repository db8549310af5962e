-------------------------------- MODULE PubSub --------------------------------
(***************************************************************************)
(* module1/task2/broker_pubsub.c: publishers, subscribers and one broker    *)
(* share a single System V message queue.  Requests to the broker have      *)
(* mtype 1, messages to a subscriber have its pid as mtype, and msgrcv      *)
(* takes the oldest message of one type.  msgsnd blocks while the queue is  *)
(* full, whoever sends.                                                     *)
(*                                                                          *)
(* SIGINT sets exit_flag and interrupts msgsnd and msgrcv with EINTR, but   *)
(* only a process that is already asleep in the call.  fgets is restarted   *)
(* after the handler (signal() installs it with SA_RESTART).                *)
(***************************************************************************)
EXTENDS Integers, FiniteSets, SequencesExt

CONSTANTS
    Broker, Publishers, Subscribers,
    Topics,
    TopicOf,      \* the topic of each publisher
    TopicsOf,     \* the topics a subscriber was started with, in order
    QueueCap,     \* messages the queue holds before msgsnd blocks
    MaxLines,     \* bound on the lines typed at one publisher
    CtrlCTargets, \* the processes at which a user may type Ctrl-C
    MaxSignals    \* bound on the number of Ctrl-Cs

Procs == {Broker} \union Publishers \union Subscribers

ASSUME PubSubAssumption ==
    /\ Broker \notin Publishers \union Subscribers /\ Publishers \intersect Subscribers = {}
    /\ TopicOf \in [Publishers -> Topics]
    /\ \A s \in Subscribers : TopicsOf[s] \in Seq(Topics) /\ TopicsOf[s] # <<>>
    /\ CtrlCTargets \subseteq Procs
    /\ QueueCap \in Nat \ {0} /\ MaxLines \in Nat /\ MaxSignals \in Nat

VARIABLES
    pc,            \* where each process is
    asleep,        \* the processes blocked in msgsnd or msgrcv
    exit_flag,     \* exit_flag of each process
    idx,           \* loop counter "i" of the broker and of each subscriber
    qstate,        \* the queue: "none", "live" or "gone"
    queue,         \* its messages, oldest first
    publishers,    \* the broker's array of publisher pids
    subscribers,   \* the broker's array of [pid, topics]
    cur,           \* the request in the broker's buffer
    lines,         \* lines typed at each publisher
    signals,       \* SIGINTs typed so far
    received,      \* history: the messages printed by each subscriber
    expected,      \* history: messages sent while a subscriber was listening
    unsubbed       \* history: subscribers whose unsubscribe requests all went out

lists   == <<publishers, subscribers, cur>>
users   == <<lines, signals>>
history == <<received, expected, unsubbed>>
vars    == <<pc, asleep, exit_flag, idx, qstate, queue, lists, users, history>>

\* A request or a forwarded message; n numbers the lines of a publisher, 0 is
\* an empty line.
Message(to, cmd, pid, topic, n) ==
    [to |-> to, cmd |-> cmd, pid |-> pid, topic |-> topic, n |-> n]

NoMessage == Message(Broker, "none", Broker, "none", 0)

Listening == {"s_check", "s_recv"}

Init ==
    /\ pc = [p \in Procs |-> "start"]
    /\ asleep = {}
    /\ exit_flag = [p \in Procs |-> FALSE]
    /\ idx = [p \in Procs |-> 1]
    /\ qstate = "none" /\ queue = <<>>
    /\ publishers = {} /\ subscribers = <<>>
    /\ cur = NoMessage
    /\ lines = [p \in Publishers |-> 0]
    /\ signals = 0
    /\ received = [s \in Subscribers |-> <<>>]
    /\ expected = [s \in Subscribers |-> {}]
    /\ unsubbed = Subscribers

Goto(p, label) == pc' = [pc EXCEPT ![p] = label]

-----------------------------------------------------------------------------
(* System calls on the queue *)

\* msgsnd succeeds, at once or after having waited for room.
Send(p, at, m) ==
    /\ pc[p] = at
    /\ qstate = "live" /\ Len(queue) < QueueCap
    /\ queue' = Append(queue, m)
    /\ asleep' = asleep \ {p}

\* msgsnd falls asleep on a full queue.
SendBlocks(p, at) ==
    /\ pc[p] = at /\ p \notin asleep
    /\ qstate = "live" /\ Len(queue) >= QueueCap
    /\ asleep' = asleep \union {p}
    /\ UNCHANGED <<pc, exit_flag, idx, qstate, queue, lists, users, history>>

\* EINVAL or EIDRM: the queue is gone.
QueueRemoved(p, at) ==
    /\ pc[p] = at
    /\ qstate = "gone"
    /\ asleep' = asleep \ {p}

Waiting(p) == {k \in DOMAIN queue : queue[k].to = p}

\* msgrcv takes the oldest message of its type.
Receive(p, at, k) ==
    /\ pc[p] = at
    /\ qstate = "live"
    /\ k \in Waiting(p) /\ \A j \in Waiting(p) : k <= j
    /\ queue' = RemoveAt(queue, k)
    /\ asleep' = asleep \ {p}

ReceiveBlocks(p, at) ==
    /\ pc[p] = at /\ p \notin asleep
    /\ qstate = "live" /\ Waiting(p) = {}
    /\ asleep' = asleep \union {p}
    /\ UNCHANGED <<pc, exit_flag, idx, qstate, queue, lists, users, history>>

-----------------------------------------------------------------------------
(* The broker *)

\* msgget with IPC_EXCL, then the handler.
BrokerStart ==
    /\ pc[Broker] = "start"
    /\ qstate' = "live"
    /\ Goto(Broker, "b_check")
    /\ UNCHANGED <<asleep, exit_flag, idx, queue, lists, users, history>>

BrokerCheck ==
    /\ pc[Broker] = "b_check"
    /\ Goto(Broker, IF exit_flag[Broker] THEN "b_kill" ELSE "b_recv")
    /\ UNCHANGED <<asleep, exit_flag, idx, qstate, queue, lists, users, history>>

\* Mutant: msgrcv with type 0, the oldest message whatever its type.
BrokerReceive_AnyType ==
    /\ pc[Broker] = "b_recv" /\ qstate = "live" /\ queue # <<>>
    /\ cur' = Head(queue) /\ queue' = Tail(queue)
    /\ asleep' = asleep \ {Broker}
    /\ Goto(Broker, "b_process")
    /\ UNCHANGED <<exit_flag, idx, qstate, publishers, subscribers, users, history>>

BrokerReceive ==
    /\ \E k \in DOMAIN queue : /\ Receive(Broker, "b_recv", k)
                               /\ cur' = queue[k]
    /\ Goto(Broker, "b_process")
    /\ UNCHANGED <<exit_flag, idx, qstate, publishers, subscribers, users, history>>

Known(pid) == {i \in DOMAIN subscribers : subscribers[i].pid = pid}

\* The first entry of a known subscriber.
find_subscriber(pid) == CHOOSE i \in Known(pid) : \A j \in Known(pid) : i <= j

\* Mutant: every subscription gets an entry of its own.
add_subscription_NoSearch(pid, topic) ==
    subscribers' = Append(subscribers, [pid |-> pid, topics |-> {topic}])

\* A new entry, or one more topic of a known subscriber.
add_subscription(pid, topic) ==
    subscribers' =
        IF Known(pid) = {}
        THEN Append(subscribers, [pid |-> pid, topics |-> {topic}])
        ELSE [subscribers EXCEPT ![find_subscriber(pid)].topics = @ \union {topic}]

\* One topic less; a subscriber without topics is taken out of the array.
remove_subscription(pid, topic) ==
    LET i    == find_subscriber(pid)
        left == subscribers[i].topics \ {topic}
    IN subscribers' = IF Known(pid) = {} THEN subscribers
                      ELSE IF left = {} THEN RemoveAt(subscribers, i)
                      ELSE [subscribers EXCEPT ![i].topics = left]

\* Mutant: the forward loop starts one below the first subscriber.
ProcessMessage_FromZero ==
    /\ pc[Broker] = "b_process"
    /\ \/ /\ cur.cmd = "subscribe"
          /\ add_subscription(cur.pid, cur.topic)
          /\ Goto(Broker, "b_check")
          /\ UNCHANGED <<publishers, idx>>
       \/ /\ cur.cmd = "unsubscribe"
          /\ remove_subscription(cur.pid, cur.topic)
          /\ Goto(Broker, "b_check")
          /\ UNCHANGED <<publishers, idx>>
       \/ /\ cur.cmd = "send" /\ cur.n # 0
          /\ publishers' = publishers \union {cur.pid}
          /\ idx' = [idx EXCEPT ![Broker] = 0]
          /\ Goto(Broker, "b_forward")
          /\ UNCHANGED subscribers
       \/ /\ cur.cmd = "send" /\ cur.n = 0
          /\ Goto(Broker, "b_check")
          /\ UNCHANGED <<publishers, subscribers, idx>>
    /\ UNCHANGED <<asleep, exit_flag, qstate, queue, cur, users, history>>

\* process_message: the three commands; an empty payload does not match.
ProcessMessage ==
    /\ pc[Broker] = "b_process"
    /\ \/ /\ cur.cmd = "subscribe"
          /\ add_subscription(cur.pid, cur.topic)
          /\ Goto(Broker, "b_check")
          /\ UNCHANGED <<publishers, idx>>
       \/ /\ cur.cmd = "unsubscribe"
          /\ remove_subscription(cur.pid, cur.topic)
          /\ Goto(Broker, "b_check")
          /\ UNCHANGED <<publishers, idx>>
       \/ /\ cur.cmd = "send" /\ cur.n # 0
          /\ publishers' = publishers \union {cur.pid}
          /\ idx' = [idx EXCEPT ![Broker] = 1]
          /\ Goto(Broker, "b_forward")
          /\ UNCHANGED subscribers
       \/ /\ cur.cmd = "send" /\ cur.n = 0
          /\ Goto(Broker, "b_check")
          /\ UNCHANGED <<publishers, subscribers, idx>>
    /\ UNCHANGED <<asleep, exit_flag, qstate, queue, cur, users, history>>

ForwardTo(s) == Message(s, "send", cur.pid, cur.topic, cur.n)

\* forward_message, one subscriber of the array per step.
Forward ==
    /\ LET i == idx[Broker] IN
         /\ i <= Len(subscribers) /\ cur.topic \in subscribers[i].topics
         /\ Send(Broker, "b_forward", ForwardTo(subscribers[i].pid))
    /\ idx' = [idx EXCEPT ![Broker] = @ + 1]
    /\ Goto(Broker, "b_forward")
    /\ UNCHANGED <<exit_flag, qstate, lists, users, history>>

ForwardBlocks ==
    /\ idx[Broker] <= Len(subscribers)
    /\ cur.topic \in subscribers[idx[Broker]].topics
    /\ SendBlocks(Broker, "b_forward")

\* Mutant: the loop ends at the first subscriber that has other topics.
ForwardSkip_Break ==
    /\ pc[Broker] = "b_forward"
    /\ idx[Broker] <= Len(subscribers) =>
         cur.topic \notin subscribers[idx[Broker]].topics
    /\ Goto(Broker, "b_check") /\ UNCHANGED idx
    /\ UNCHANGED <<asleep, exit_flag, qstate, queue, lists, users, history>>

\* A subscriber to other topics is skipped; the end of the array.
ForwardSkip ==
    /\ pc[Broker] = "b_forward"
    /\ IF idx[Broker] > Len(subscribers)
         THEN /\ Goto(Broker, "b_check") /\ UNCHANGED idx
         ELSE /\ cur.topic \notin subscribers[idx[Broker]].topics
              /\ idx' = [idx EXCEPT ![Broker] = @ + 1]
              /\ UNCHANGED pc
    /\ UNCHANGED <<asleep, exit_flag, qstate, queue, lists, users, history>>

Ended == {"done", "failed", "refused"}

\* Where EINTR takes a process that sleeps in msgsnd or msgrcv: a publisher
\* leaves its loop, a subscriber that was subscribing exits, and everybody else
\* goes on (the broker and an unsubscribing subscriber with the next message).
AfterEintr(p) ==
    CASE pc[p] = "b_recv" -> "b_check"
      [] pc[p] = "s_recv" -> "s_check"
      [] pc[p] = "p_send" -> "done"
      [] pc[p] = "s_sub"  -> "failed"
      [] OTHER -> pc[p]

\* kill(pid, SIGINT) for a set of processes, sent by process p or by a user:
\* p itself moves on to label.  Ended processes get nothing.
Sigint(ps, p, label) ==
    LET alive == {q \in ps : pc[q] \notin Ended}
        woken == alive \intersect asleep
        skip  == {q \in woken : pc[q] \in {"b_forward", "s_unsub"}}
    IN  /\ exit_flag' = [q \in Procs |-> exit_flag[q] \/ q \in alive]
        /\ asleep' = asleep \ woken
        /\ idx' = [q \in Procs |-> IF q \in skip THEN idx[q] + 1 ELSE idx[q]]
        /\ unsubbed' = unsubbed \ skip
        /\ pc' = [q \in Procs |-> IF q \in woken THEN AfterEintr(q)
                                  ELSE IF q = p THEN label ELSE pc[q]]

\* cleanup_broker: SIGINT to every publisher and subscriber on the lists ...
CleanupKill ==
    /\ pc[Broker] = "b_kill"
    /\ Sigint(publishers \union {s.pid : s \in ToSet(subscribers)}, Broker, "b_rmid")
    /\ UNCHANGED <<qstate, queue, lists, users, received, expected>>

\* Mutant: the queue stays when the broker ends.
CleanupRemove_KeepsQueue ==
    /\ pc[Broker] = "b_rmid"
    /\ publishers' = {} /\ subscribers' = <<>>
    /\ Goto(Broker, "done")
    /\ UNCHANGED <<qstate, queue, asleep, exit_flag, idx, cur, users, history>>

\* ... then the queue and the lists go.
CleanupRemove ==
    /\ pc[Broker] = "b_rmid"
    /\ qstate' = "gone" /\ queue' = <<>>
    /\ publishers' = {} /\ subscribers' = <<>>
    /\ Goto(Broker, "done")
    /\ UNCHANGED <<asleep, exit_flag, idx, cur, users, history>>

broker_mode ==
    \/ BrokerStart \/ BrokerCheck \/ BrokerReceive
    \/ ReceiveBlocks(Broker, "b_recv") \/ ProcessMessage
    \/ Forward \/ ForwardBlocks \/ ForwardSkip
    \/ CleanupKill \/ CleanupRemove

-----------------------------------------------------------------------------
(* A publisher *)

Attach(p, to) ==
    /\ pc[p] = "start"
    /\ Goto(p, IF qstate = "live" THEN to ELSE "refused")
    /\ UNCHANGED <<asleep, exit_flag, idx, qstate, queue, lists, users, history>>

\* The loop test and fgets: the user types a line, possibly empty, or stops
\* ("exit" or end of input).  exit_flag is only looked at before fgets.
ReadLine(p) ==
    /\ pc[p] = "p_check"
    /\ \/ /\ ~exit_flag[p] /\ Goto(p, "p_fgets") /\ UNCHANGED lines
       \/ /\ exit_flag[p] /\ Goto(p, "done") /\ UNCHANGED lines
    /\ UNCHANGED <<asleep, exit_flag, idx, qstate, queue, lists, signals, history>>

TypeLine(p) ==
    /\ pc[p] = "p_fgets"
    /\ \/ /\ lines[p] < MaxLines
          /\ lines' = [lines EXCEPT ![p] = @ + 1]
          /\ Goto(p, "p_send")
       \/ Goto(p, "done") /\ UNCHANGED lines
    /\ UNCHANGED <<asleep, exit_flag, idx, qstate, queue, lists, signals, history>>

\* msgsnd of the typed line, or of an empty one.
Publish(p) ==
    /\ \E n \in {lines[p], 0} :
         /\ Send(p, "p_send", Message(Broker, "send", p, TopicOf[p], n))
         /\ expected' = [s \in Subscribers |->
              IF n # 0 /\ pc[s] \in Listening /\ TopicOf[p] \in ToSet(TopicsOf[s])
              THEN expected[s] \union {<<p, n>>}
              ELSE expected[s]]
    /\ Goto(p, "p_check")
    /\ UNCHANGED <<exit_flag, idx, qstate, lists, users, received, unsubbed>>

PublishFails(p) ==
    /\ QueueRemoved(p, "p_send")
    /\ Goto(p, "done")
    /\ UNCHANGED <<exit_flag, idx, qstate, queue, lists, users, history>>

publisher_mode(p) ==
    \/ Attach(p, "p_check") \/ ReadLine(p) \/ TypeLine(p)
    \/ Publish(p) \/ SendBlocks(p, "p_send") \/ PublishFails(p)

-----------------------------------------------------------------------------
(* A subscriber *)

Subscribe(s) ==
    /\ Send(s, "s_sub", Message(Broker, "subscribe", s, TopicsOf[s][idx[s]], 0))
    /\ IF idx[s] < Len(TopicsOf[s])
         THEN idx' = [idx EXCEPT ![s] = @ + 1] /\ Goto(s, "s_sub")
         ELSE idx' = [idx EXCEPT ![s] = 1] /\ Goto(s, "s_check")
    /\ UNCHANGED <<exit_flag, qstate, lists, users, history>>

SubscribeFails(s) ==
    /\ QueueRemoved(s, "s_sub")
    /\ Goto(s, "failed")
    /\ UNCHANGED <<exit_flag, idx, qstate, queue, lists, users, history>>

SubscriberCheck(s) ==
    /\ pc[s] = "s_check"
    /\ Goto(s, IF exit_flag[s] THEN "s_unsub" ELSE "s_recv")
    /\ UNCHANGED <<asleep, exit_flag, idx, qstate, queue, lists, users, history>>

SubscriberReceive(s) ==
    /\ \E k \in DOMAIN queue :
         /\ Receive(s, "s_recv", k)
         /\ received' = [received EXCEPT ![s] = Append(@, queue[k])]
    /\ Goto(s, "s_check")
    /\ UNCHANGED <<exit_flag, idx, qstate, lists, users, expected, unsubbed>>

SubscriberReceiveFails(s) ==
    /\ QueueRemoved(s, "s_recv")
    /\ Goto(s, "s_unsub")
    /\ UNCHANGED <<exit_flag, idx, qstate, queue, lists, users, history>>

\* One unsubscribe request per topic; an error is ignored.
Unsubscribe(s) ==
    /\ idx[s] <= Len(TopicsOf[s])
    /\ \/ /\ Send(s, "s_unsub", Message(Broker, "unsubscribe", s, TopicsOf[s][idx[s]], 0))
          /\ UNCHANGED unsubbed
       \/ /\ QueueRemoved(s, "s_unsub")
          /\ unsubbed' = unsubbed \ {s}
          /\ UNCHANGED queue
    /\ idx' = [idx EXCEPT ![s] = @ + 1]
    /\ Goto(s, "s_unsub")
    /\ UNCHANGED <<exit_flag, qstate, lists, users, received, expected>>

UnsubscribeBlocks(s) ==
    /\ idx[s] <= Len(TopicsOf[s])
    /\ SendBlocks(s, "s_unsub")

SubscriberEnd(s) ==
    /\ pc[s] = "s_unsub" /\ idx[s] > Len(TopicsOf[s])
    /\ Goto(s, "done")
    /\ UNCHANGED <<asleep, exit_flag, idx, qstate, queue, lists, users, history>>

subscriber_mode(s) ==
    \/ Attach(s, "s_sub") \/ Subscribe(s) \/ SendBlocks(s, "s_sub")
    \/ SubscribeFails(s) \/ SubscriberCheck(s) \/ SubscriberReceive(s)
    \/ ReceiveBlocks(s, "s_recv") \/ SubscriberReceiveFails(s)
    \/ Unsubscribe(s) \/ UnsubscribeBlocks(s) \/ SubscriberEnd(s)

-----------------------------------------------------------------------------
\* The user types Ctrl-C at a started process.
CtrlC(p) ==
    /\ signals < MaxSignals
    /\ pc[p] \notin Ended \union {"start", "b_kill", "b_rmid"}
    /\ signals' = signals + 1
    /\ Sigint({p}, p, pc[p])
    /\ UNCHANGED <<qstate, queue, lists, lines, received, expected>>

Next ==
    \/ broker_mode
    \/ \E p \in Publishers : publisher_mode(p)
    \/ \E s \in Subscribers : subscriber_mode(s)
    \/ \E p \in CtrlCTargets : CtrlC(p)

Spec == Init /\ [][Next]_vars

\* Started programs keep running.  Users owe nothing: neither a start, nor a
\* line, nor a Ctrl-C.
Fairness ==
    /\ WF_vars(broker_mode /\ pc[Broker] # "start")
    /\ \A p \in Publishers : WF_vars(publisher_mode(p) /\ pc[p] \notin {"start", "p_fgets"})
    /\ \A s \in Subscribers : WF_vars(subscriber_mode(s) /\ pc[s] # "start")

FairSpec == Spec /\ Fairness

\* On top of that the kernel serves the senders asleep on a full queue in order.
FifoSpec ==
    /\ FairSpec
    /\ SF_vars(Forward)
    /\ \A p \in Publishers : SF_vars(Publish(p))
    /\ \A s \in Subscribers : SF_vars(Subscribe(s)) /\ SF_vars(Unsubscribe(s))

-----------------------------------------------------------------------------
Pids == Publishers \union Subscribers
Messages == [to : Subscribers \union {Broker}, pid : Pids \union {Broker}, topic : Topics \union {"none"},
             cmd : {"none", "subscribe", "unsubscribe", "send"}, n : 0..MaxLines]

\* Types; the queue never holds more than its capacity.
TypeOK ==
    /\ pc \in [Procs -> {"start", "b_check", "b_recv", "b_process", "b_forward",
                         "b_kill", "b_rmid", "p_check", "p_fgets", "p_send",
                         "s_sub", "s_check", "s_recv", "s_unsub"} \union Ended]
    /\ asleep \subseteq Procs
    /\ exit_flag \in [Procs -> BOOLEAN]
    /\ idx \in [Procs -> Nat \ {0}]
    /\ qstate \in {"none", "live", "gone"}
    /\ queue \in Seq(Messages) /\ Len(queue) <= QueueCap
    /\ publishers \subseteq Publishers
    /\ subscribers \in Seq([pid : Subscribers, topics : SUBSET Topics])
    /\ cur \in Messages
    /\ lines \in [Publishers -> 0..MaxLines] /\ signals \in 0..MaxSignals
    /\ received \in [Subscribers -> Seq(Messages)]
    /\ expected \in [Subscribers -> SUBSET (Publishers \X (1..MaxLines))]
    /\ unsubbed \subseteq Subscribers

\* A subscriber prints only messages of its own topics, each at most once, and
\* those of one publisher in the order in which they were typed, although all
\* messages pass twice through one queue that everybody shares.
InOrderOnTopic ==
    \A s \in Subscribers : \A i, j \in DOMAIN received[s] :
        LET a == received[s][i]  b == received[s][j] IN
          /\ a.topic \in ToSet(TopicsOf[s]) /\ TopicOf[a.pid] = a.topic /\ a.n # 0
          /\ i < j /\ a.pid = b.pid => a.n < b.n

\* A message sent while a subscriber to its topic was in its receive loop is
\* not lost on the way to it: it was printed, waits in the queue as a message
\* or as a request, or is being forwarded and has not passed it yet.  SIGINT at
\* the broker ends the guarantee (it drops the message it was sending).
NoMissedMessage ==
    qstate = "live" /\ ~exit_flag[Broker] =>
      \A s \in Subscribers : pc[s] \in Listening =>
        \A e \in expected[s] :
          LET IsIt(m) == m.cmd = "send" /\ m.pid = e[1] /\ m.n = e[2] IN
            \/ \E i \in DOMAIN received[s] : IsIt(received[s][i])
            \/ \E i \in DOMAIN queue : queue[i].to \in {s, Broker} /\ IsIt(queue[i])
            \/ IsIt(cur) /\ pc[Broker] = "b_process"
            \/ /\ IsIt(cur) /\ pc[Broker] = "b_forward"
               /\ \E i \in DOMAIN subscribers :
                    subscribers[i].pid = s /\ i >= idx[Broker]

\* The broker's array holds each subscriber once, never without topics, and a
\* subscriber whose unsubscribe requests all went out is off the array as soon
\* as the broker has worked through them.
RegistrySound ==
    /\ \A i, j \in DOMAIN subscribers :
         /\ subscribers[i].topics # {}
         /\ subscribers[i].pid = subscribers[j].pid => i = j
    /\ \A i \in DOMAIN subscribers :
         LET s == subscribers[i].pid IN
           pc[s] = "done" /\ s \in unsubbed =>
             \/ \E k \in DOMAIN queue : queue[k].pid = s /\ queue[k].cmd = "unsubscribe"
             \/ pc[Broker] = "b_process" /\ cur.pid = s /\ cur.cmd = "unsubscribe"

\* When the broker has gone, every subscriber that ever started ends, whether
\* the SIGINT found it asleep in msgrcv, about to call it, or subscribing.
EverybodyLeaves ==
    pc[Broker] = "done" ~> \A s \in Subscribers : pc[s] \in Ended \union {"start"}

\* Line 119, "forward the message to all subscribers of the topic": a message
\* that the broker has started to forward reaches the end of the array.
ForwardCompletes == pc[Broker] = "b_forward" ~> pc[Broker] # "b_forward"
=============================================================================

---------------------------- MODULE PriorityQueue ----------------------------
(***************************************************************************)
(* module2/4.2/priority_queue.c: one linked list of nodes per priority.     *)
(* Nodes are places of memory: malloc hands out any free one, with whatever *)
(* it held before.  The data of a node is the order its request came in;    *)
(* the user types priorities inside the range (nothing checks them).        *)
(***************************************************************************)
EXTENDS Integers, FiniteSets

CONSTANTS
    MAX_PRIORITY,
    Nodes,      \* places for nodes, not 0
    MaxArrivals \* bound on the requests

VARIABLES
    heads,          \* the first node of each list, 0 for NULL
    next,           \* "next" of each node
    data, priority, \* the other fields of each node
    used,           \* nodes between malloc and free
    arrived,        \* requests so far
    taken           \* what the latest dequeue printed, <<>> for nothing

pqVars == <<heads, next, data, priority, used, arrived, taken>>

Priorities == 0 .. MAX_PRIORITY - 1

\* initQueue
Init ==
    /\ heads = [p \in Priorities |-> 0]
    /\ next = [n \in Nodes |-> 0] /\ data = [n \in Nodes |-> 0]
    /\ priority = [n \in Nodes |-> 0]
    /\ used = {} /\ arrived = 0 /\ taken = <<>>

\* The nodes of a list: follow next for as long as it leads somewhere.
Chain(p) ==
    LET node[k \in 0 .. Cardinality(Nodes)] ==
          IF k = 0 THEN heads[p]
          ELSE IF node[k - 1] = 0 THEN 0 ELSE next[node[k - 1]]
    IN {node[k] : k \in DOMAIN node} \ {0}

\* Mutant: newNode->next keeps what the memory held.
enqueue_Unlinked(p) == \E n \in Nodes \ used :
    /\ arrived < MaxArrivals /\ arrived' = arrived + 1
    /\ used' = used \union {n}
    /\ data' = [data EXCEPT ![n] = arrived']
    /\ priority' = [priority EXCEPT ![n] = p]
    /\ \/ heads[p] = 0 /\ heads' = [heads EXCEPT ![p] = n] /\ UNCHANGED next
       \/ \E last \in Chain(p) : /\ next[last] = 0
                                 /\ next' = [next EXCEPT ![last] = n]
                                 /\ UNCHANGED heads
    /\ UNCHANGED taken

\* A new node at the end of its list.
enqueue(p) == \E n \in Nodes \ used :
    /\ arrived < MaxArrivals /\ arrived' = arrived + 1
    /\ used' = used \union {n}
    /\ data' = [data EXCEPT ![n] = arrived']
    /\ priority' = [priority EXCEPT ![n] = p]
    /\ \/ /\ heads[p] = 0
          /\ heads' = [heads EXCEPT ![p] = n]
          /\ next' = [next EXCEPT ![n] = 0]
       \/ \E last \in Chain(p) :
             /\ next[last] = 0
             /\ next' = [next EXCEPT ![n] = 0, ![last] = n]
             /\ UNCHANGED heads
    /\ UNCHANGED taken

\* The first node of the highest list in the range, printed and freed.
Dequeue(low, high) ==
    LET full == {i \in low .. high : heads[i] # 0}
        top  == CHOOSE i \in full : \A j \in full : j <= i
        n    == heads[top]
    IN /\ IF full = {} THEN taken' = <<>> /\ UNCHANGED <<heads, used>>
          ELSE /\ heads' = [heads EXCEPT ![top] = next[n]]
               /\ used' = used \ {n}
               /\ taken' = <<[order |-> data[n], priority |-> priority[n]]>>
       /\ UNCHANGED <<next, data, priority, arrived>>

dequeueHighest       == Dequeue(0, MAX_PRIORITY - 1)
dequeueByPriority(p) == Dequeue(p, p)
dequeueAtLeast(p)    == Dequeue(p, MAX_PRIORITY - 1)

\* main's menu.
Next == \/ dequeueHighest
        \/ \E p \in Priorities : enqueue(p) \/ dequeueByPriority(p) \/ dequeueAtLeast(p)

Spec == Init /\ [][Next]_pqVars

-----------------------------------------------------------------------------
(* Refinement *)

\* A request waits for each list an allocated node is on.
Waiting == {[order |-> data[x[1]], priority |-> x[2]] :
               x \in {y \in used \X Priorities : y[1] \in Chain(y[2])}}

Service == INSTANCE PriorityService WITH waiting <- Waiting

\* Whatever memory malloc hands out, the lists behave as one queue in which
\* nothing is lost, repeated or overtaken: every step of the menu is a Put or a
\* Take of the service.
ServesInOrder == Service!Spec
=============================================================================

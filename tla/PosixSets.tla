------------------------------ MODULE PosixSets ------------------------------
(***************************************************************************)
(* module1/task5/main_posix.c: producer and consumers of number sets over a *)
(* POSIX segment and semaphore.  Unlike the System V version the objects    *)
(* are found by two names: a producer unlinks whatever stands there, makes  *)
(* its own pair and unlinks the names at the end; unlinked objects live on  *)
(* with those who opened them.  A consumer that opens the two names around  *)
(* such a change holds a segment of one producer and a semaphore of another.*)
(*                                                                          *)
(* Processes are numbered in the order they start; producer g makes segment *)
(* g and semaphore g.  A set is its place in the list and whether its count *)
(* is still there; MaxSets stands for the size of the segment.  SIGKILL and *)
(* Ctrl+C end a process anywhere.                                           *)
(***************************************************************************)
EXTENDS Integers, Sequences, FiniteSets, Functions

CONSTANTS
    Producers, Consumers,
    MaxSets, \* sets that fit a segment
    MaxKills \* bound on the processes killed

VARIABLES
    ppc,        \* where each producer is
    shm, sem,   \* what the two names stand for, 0 for nothing
    sized,      \* segments ftruncate has given their size
    value,      \* the semaphores
    sets,       \* each segment's list: TRUE while a set has its count
    finished,   \* segments with producer_finished set
    cpc,        \* where each consumer is
    cshm, csem, \* what each consumer has opened
    found,      \* the block a consumer is about to claim
    claims,     \* history: <<segment, place, consumer>>
    clash,      \* history: two producers at the same time
    kills

names   == <<shm, sem>>
segment == <<sized, sets, finished>>
consumer == <<cpc, cshm, csem, found, claims>>
psVars  == <<ppc, names, segment, value, consumer, clash, kills>>

Init ==
    /\ ppc = [g \in Producers |-> "new"] /\ shm = 0 /\ sem = 0
    /\ sized = {} /\ value = [g \in Producers |-> 0]
    /\ sets = [g \in Producers |-> <<>>] /\ finished = {}
    /\ cpc = [c \in Consumers |-> "new"]
    /\ cshm = [c \in Consumers |-> 0] /\ csem = [c \in Consumers |-> 0]
    /\ found = [c \in Consumers |-> 0]
    /\ claims = {} /\ clash = FALSE /\ kills = 0

Over     == {"new", "done", "failed", "killed"}
Go(g, l) == ppc' = [ppc EXCEPT ![g] = l]

-----------------------------------------------------------------------------
(* The producer *)

\* remove_objects, one name after the other.
RemoveObjects(g) ==
    /\ \A h \in Producers : h < g => ppc[h] # "new"
    /\ \/ ppc[g] = "new" /\ shm' = 0 /\ Go(g, "unlink_sem") /\ UNCHANGED sem
          /\ clash' = (clash \/ \E h \in Producers : ppc[h] \notin Over)
       \/ ppc[g] = "unlink_sem" /\ sem' = 0 /\ Go(g, "create") /\ UNCHANGED <<shm, clash>>
    /\ UNCHANGED <<segment, value, consumer, kills>>

\* shm_open with O_EXCL.
CreateShm(g) ==
    /\ ppc[g] = "create"
    /\ IF shm = 0 THEN shm' = g /\ Go(g, "size") ELSE Go(g, "failed") /\ UNCHANGED shm
    /\ UNCHANGED <<sem, segment, value, consumer, clash, kills>>

\* ftruncate and mmap; a failure takes the name away again.
SizeShm(g) ==
    /\ ppc[g] = "size"
    /\ \/ sized' = sized \union {g} /\ Go(g, "open_sem") /\ UNCHANGED shm
       \/ shm' = 0 /\ Go(g, "failed") /\ UNCHANGED sized
    /\ UNCHANGED <<sem, sets, finished, value, consumer, clash, kills>>

\* sem_open with O_EXCL and value 1, then the header.  A failure unlinks the
\* segment's name, whoever's it is by now.
CreateSem(g) ==
    /\ ppc[g] = "open_sem"
    /\ IF sem = 0
       THEN sem' = g /\ value' = [value EXCEPT ![g] = 1] /\ Go(g, "add") /\ UNCHANGED shm
       ELSE shm' = 0 /\ Go(g, "failed") /\ UNCHANGED <<sem, value>>
    /\ UNCHANGED <<segment, consumer, clash, kills>>

\* sem_wait: "add" becomes "adding", and so on.
Inside == [add |-> "adding", finish |-> "finishing", check |-> "checking"]

ProducerWait(g) ==
    /\ ppc[g] \in DOMAIN Inside /\ value[g] > 0
    /\ value' = [value EXCEPT ![g] = @ - 1] /\ Go(g, Inside[ppc[g]])
    /\ UNCHANGED <<names, segment, consumer, clash, kills>>

\* Mutant: the segment's name goes with the last set, before the consumers come.
ProducerInside_Unlink(g) ==
    /\ \/ ppc[g] = "adding" /\ Len(sets[g]) < MaxSets
          /\ sets' = [sets EXCEPT ![g] = Append(@, TRUE)] /\ Go(g, "add")
          /\ UNCHANGED <<shm, finished>>
       \/ ppc[g] = "adding" /\ Len(sets[g]) > 0 /\ Go(g, "finish")
          /\ UNCHANGED <<shm, sets, finished>>
       \/ ppc[g] = "finishing" /\ finished' = finished \union {g} /\ Go(g, "check")
          /\ shm' = 0 /\ UNCHANGED sets
       \/ ppc[g] = "checking"
          /\ Go(g, IF \E i \in DOMAIN sets[g] : sets[g][i] THEN "check" ELSE "remove_shm")
          /\ UNCHANGED <<shm, sets, finished>>
    /\ value' = [value EXCEPT ![g] = @ + 1]
    /\ UNCHANGED <<sem, sized, consumer, clash, kills>>

\* The critical sections, each up to its sem_post.
ProducerInside(g) ==
    /\ \/ ppc[g] = "adding" /\ Len(sets[g]) < MaxSets
          /\ sets' = [sets EXCEPT ![g] = Append(@, TRUE)] /\ Go(g, "add")
          /\ UNCHANGED finished
       \/ ppc[g] = "adding" /\ Len(sets[g]) > 0 /\ Go(g, "finish")
          /\ UNCHANGED <<sets, finished>>
       \/ ppc[g] = "finishing" /\ finished' = finished \union {g} /\ Go(g, "check")
          /\ UNCHANGED sets
       \/ ppc[g] = "checking"
          /\ Go(g, IF \E i \in DOMAIN sets[g] : sets[g][i] THEN "check" ELSE "remove_shm")
          /\ UNCHANGED <<sets, finished>>
    /\ value' = [value EXCEPT ![g] = @ + 1]
    /\ UNCHANGED <<names, sized, consumer, clash, kills>>

\* The end: the names go, whatever they stand for.
ProducerEnd(g) ==
    /\ \/ ppc[g] = "remove_shm" /\ shm' = 0 /\ Go(g, "remove_sem") /\ UNCHANGED sem
       \/ ppc[g] = "remove_sem" /\ sem' = 0 /\ Go(g, "done") /\ UNCHANGED shm
    /\ UNCHANGED <<segment, value, consumer, clash, kills>>

-----------------------------------------------------------------------------
(* The consumer *)

At(c, l) == cpc' = [cpc EXCEPT ![c] = l]

OpenShm(c) ==
    /\ cpc[c] = "new" /\ \A d \in Consumers : d < c => cpc[d] # "new"
    /\ IF shm = 0 THEN At(c, "failed") ELSE At(c, "open_sem")
    /\ cshm' = [cshm EXCEPT ![c] = shm]
    /\ UNCHANGED <<ppc, names, segment, value, csem, found, claims, clash, kills>>

OpenSem(c) ==
    /\ cpc[c] = "open_sem"
    /\ IF sem = 0 THEN At(c, "failed") ELSE At(c, "wait")
    /\ csem' = [csem EXCEPT ![c] = sem]
    /\ UNCHANGED <<ppc, names, segment, value, cshm, found, claims, clash, kills>>

ConsumerWait(c) ==
    /\ cpc[c] = "wait" /\ value[csem[c]] > 0
    /\ value' = [value EXCEPT ![csem[c]] = @ - 1] /\ At(c, "look")
    /\ UNCHANGED <<ppc, names, segment, cshm, csem, found, claims, clash, kills>>

\* The walk to the first set with a count.  A segment that has no size yet is
\* the end of the process (SIGBUS).
Look(c) ==
    LET left == {i \in DOMAIN sets[cshm[c]] : sets[cshm[c]][i]}
    IN /\ cpc[c] = "look"
       /\ IF cshm[c] \notin sized THEN At(c, "killed") /\ UNCHANGED found
          ELSE /\ At(c, "act")
               /\ \/ left = {} /\ found' = [found EXCEPT ![c] = 0]
                  \/ \E i \in left : (\A j \in left : i <= j) /\ found' = [found EXCEPT ![c] = i]
       /\ UNCHANGED <<ppc, names, segment, value, cshm, csem, claims, clash, kills>>

\* Mutant: the count is left in place.
Act_NoZero(c) ==
    LET g == cshm[c]
    IN /\ cpc[c] = "act"
       /\ IF found[c] > 0
          THEN /\ claims' = claims \union {<<g, found[c], c>>}
               /\ At(c, "wait") /\ UNCHANGED sets
          ELSE /\ At(c, IF g \in finished THEN "done" ELSE "wait")
               /\ UNCHANGED <<sets, claims>>
       /\ value' = [value EXCEPT ![csem[c]] = @ + 1]
       /\ UNCHANGED <<ppc, names, sized, finished, cshm, csem, found, clash, kills>>

\* The claim, or nothing left; sem_post.
Act(c) ==
    LET g == cshm[c]
    IN /\ cpc[c] = "act"
       /\ IF found[c] > 0
          THEN /\ sets' = [sets EXCEPT ![g][found[c]] = FALSE]
               /\ claims' = claims \union {<<g, found[c], c>>}
               /\ At(c, "wait")
          ELSE /\ At(c, IF g \in finished THEN "done" ELSE "wait")
               /\ UNCHANGED <<sets, claims>>
       /\ value' = [value EXCEPT ![csem[c]] = @ + 1]
       /\ UNCHANGED <<ppc, names, sized, finished, cshm, csem, found, clash, kills>>

-----------------------------------------------------------------------------
KillProducer(g) ==
    /\ ppc[g] \notin Over /\ kills < MaxKills /\ kills' = kills + 1 /\ Go(g, "killed")
    /\ UNCHANGED <<names, segment, value, consumer, clash>>

KillConsumer(c) ==
    /\ cpc[c] \notin Over /\ kills < MaxKills /\ kills' = kills + 1 /\ At(c, "killed")
    /\ UNCHANGED <<ppc, names, segment, value, cshm, csem, found, claims, clash>>

Producer(g) == \/ RemoveObjects(g) \/ CreateShm(g) \/ SizeShm(g) \/ CreateSem(g)
               \/ ProducerWait(g) \/ ProducerInside(g) \/ ProducerEnd(g)
               \/ KillProducer(g)
Consumer(c) == \/ OpenShm(c) \/ OpenSem(c) \/ ConsumerWait(c) \/ Look(c) \/ Act(c)
               \/ KillConsumer(c)

Next == (\E g \in Producers : Producer(g)) \/ (\E c \in Consumers : Consumer(c))

Spec == Init /\ [][Next]_psVars

-----------------------------------------------------------------------------
(* Properties *)

\* Everybody who has opened segment g uses the semaphore that goes with it.
Matched(g) == \A c \in Consumers : cshm[c] = g => csem[c] \in {0, g}

\* Producers may come and go, clash and be killed: as long as no consumer has
\* got a segment and a semaphore of two producers, a set is processed once, and
\* a producer leaves only when all its sets have been.
ClaimedByOne == \A g \in Producers : Matched(g) =>
    /\ \A x, y \in claims : x[1] = g /\ y[1] = g /\ x[2] = y[2] => x = y
    /\ ppc[g] \in {"remove_shm", "remove_sem", "done"} =>
         \A i \in DOMAIN sets[g] : \E x \in claims : x[1] = g /\ x[2] = i

\* A producer that fills its segment, or waits for its sets to be processed, is
\* the one new consumers find, unless two producers have been at work at once.
ProducerFound == \A g \in Producers :
    ~clash /\ ppc[g] \in DOMAIN Inside \union Range(Inside) => shm = g /\ sem = g
=============================================================================

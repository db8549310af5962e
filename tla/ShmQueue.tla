------------------------------- MODULE ShmQueue -------------------------------
(***************************************************************************)
(* module1/task4/task4.c: one producer writes sets of numbers into a        *)
(* System V shared-memory segment as a linked list of blocks; any number of *)
(* consumers each claim whole blocks.  One semaphore guards the segment.    *)
(*                                                                          *)
(* Offsets and sizes are counted in ints (the code counts bytes; every      *)
(* offset is a multiple of sizeof(int)).  The numbers of a set are          *)
(* abstracted to the offset of its block: what matters is who gets which    *)
(* set, not what min and max are.  The run starts with no leftover IPC      *)
(* objects and with a single producer.  A process may be killed anywhere;   *)
(* semop is called without SEM_UNDO, so a dead holder never gives the       *)
(* semaphore back.                                                          *)
(***************************************************************************)
EXTENDS Integers, FiniteSets

CONSTANTS
    Producer,      \* the process run as "task4 producer"
    Consumers,     \* the processes run as "task4 consumer"
    SHM_SIZE,      \* size of the segment, in ints
    MAX_NUMBERS,   \* largest set
    MaxKills       \* bound on the number of killed processes

\* sizeof(shm_header) and BLOCK_HEADER_SIZE in ints
HEADER_SIZE == 4
BLOCK_HEADER_SIZE == 2

ASSUME ShmAssumption ==
    /\ Producer \notin Consumers
    /\ SHM_SIZE \in Nat /\ SHM_SIZE >= HEADER_SIZE
    /\ MAX_NUMBERS \in Nat \ {0}
    /\ MaxKills \in Nat

Procs   == Consumers \union {Producer}
Offsets == 0..SHM_SIZE
BLOCK_SIZE(count) == BLOCK_HEADER_SIZE + count

VARIABLES
    pc,                  \* where each process is
    off,                 \* the local variable "offset" of each process
    nums,                \* "count" copied by a consumer, 0 before the copy
    count,               \* the producer's local "count"
    last_block_offset,   \* the producer's local "last_block_offset"
    shm,                 \* the segment: "none", "live" or "marked" by IPC_RMID
    attached,            \* the processes that have the segment mapped
    sem,                 \* the semaphore set: "none", "live" or "gone"
    semval,              \* its value
    first_block_offset, free_offset, producer_finished,   \* shm_header
    block,               \* block[o] = the two header ints of a block at o
    kills,               \* number of processes killed so far
    written,             \* history: offsets of the blocks linked so far
    size,                \* history: size[o] = numbers in the set written at o
    claims,              \* history: claims[o] = times the set at o was claimed
    reported             \* history: offsets whose min and max were printed

locals  == <<off, nums, count, last_block_offset>>
ipc     == <<shm, attached, sem, semval>>
memory  == <<first_block_offset, free_offset, producer_finished, block>>
history == <<written, size, claims, reported>>
vars    == <<pc, locals, ipc, memory, kills, history>>

Zero == [count |-> 0, next |-> 0]

Init ==
    /\ pc = [p \in Procs |-> IF p = Producer THEN "p_start" ELSE "c_start"]
    /\ off = [p \in Procs |-> 0]
    /\ nums = [c \in Consumers |-> 0]
    /\ count = 0
    /\ last_block_offset = 0
    /\ shm = "none" /\ attached = {}
    /\ sem = "none" /\ semval = 0
    /\ first_block_offset = 0 /\ free_offset = 0 /\ producer_finished = 0
    /\ block = [o \in Offsets |-> Zero]
    /\ kills = 0
    /\ written = {}
    /\ size = [o \in Offsets |-> 0]
    /\ claims = [o \in Offsets |-> 0]
    /\ reported = {}

Goto(p, label) == pc' = [pc EXCEPT ![p] = label]

\* exit() unmaps the segment; a marked segment goes with its last user.
Leave(p, label) == Goto(p, label) /\ attached' = attached \ {p}

ShmUsable == shm = "live" \/ (shm = "marked" /\ attached # {})

-----------------------------------------------------------------------------
(* The semaphore operations *)

sem_wait(p, from, to) ==
    /\ pc[p] = from
    /\ sem = "live" /\ semval > 0
    /\ semval' = semval - 1
    /\ Goto(p, to)
    /\ UNCHANGED <<shm, attached, sem>>

sem_signal(p, from, to) ==
    /\ pc[p] = from
    /\ sem = "live"
    /\ semval' = semval + 1
    /\ Goto(p, to)
    /\ UNCHANGED <<shm, attached, sem>>

-----------------------------------------------------------------------------
(* The producer *)

\* remove_ipc_objects finds nothing, then shmget with IPC_EXCL.
CreateShm ==
    /\ pc[Producer] = "p_start"
    /\ \/ Goto(Producer, "p_semget") /\ shm' = "live"
       \/ Goto(Producer, "failed") /\ UNCHANGED shm
    /\ UNCHANGED <<locals, attached, sem, semval, memory, kills, history>>

\* semget with IPC_EXCL: the new semaphore has value 0; on error the segment
\* is removed.
CreateSem ==
    /\ pc[Producer] = "p_semget"
    /\ \/ Goto(Producer, "p_setval") /\ sem' = "live" /\ UNCHANGED shm
       \/ Goto(Producer, "failed") /\ shm' = "marked" /\ UNCHANGED sem
    /\ UNCHANGED <<locals, attached, semval, memory, kills, history>>

\* Mutant: the error exits forget the semaphore.
RemoveBoth_KeepsSem == shm' = "marked" /\ sem' = sem

RemoveBoth == shm' = "marked" /\ sem' = "gone"

SetVal ==
    /\ pc[Producer] = "p_setval"
    /\ \/ Goto(Producer, "p_shmat") /\ semval' = 1 /\ UNCHANGED <<shm, sem>>
       \/ Goto(Producer, "failed") /\ RemoveBoth /\ UNCHANGED semval
    /\ UNCHANGED <<locals, attached, memory, kills, history>>

AttachProducer ==
    /\ pc[Producer] = "p_shmat"
    /\ \/ /\ Goto(Producer, "p_init_first")
          /\ attached' = attached \union {Producer}
          /\ UNCHANGED <<shm, sem>>
       \/ Goto(Producer, "failed") /\ RemoveBoth /\ UNCHANGED attached
    /\ UNCHANGED <<locals, semval, memory, kills, history>>

\* The header is initialised outside the critical section, when consumers may
\* already hold the semaphore; the field they read first has its own step.
InitFirstBlockOffset ==
    /\ pc[Producer] = "p_init_first"
    /\ Goto(Producer, "p_init_rest")
    /\ first_block_offset' = HEADER_SIZE
    /\ UNCHANGED <<locals, ipc, free_offset, producer_finished, block, kills, history>>

InitHeaderRest ==
    /\ pc[Producer] = "p_init_rest"
    /\ Goto(Producer, "p_wait")
    /\ free_offset' = HEADER_SIZE
    /\ producer_finished' = 0
    /\ UNCHANGED <<locals, ipc, first_block_offset, block, kills, history>>

EnterProduce ==
    /\ sem_wait(Producer, "p_wait", "p_body")
    /\ UNCHANGED <<locals, memory, kills, history>>

\* Mutant: the block may end one int behind the segment.
FillBlock_OffByOne ==
    /\ pc[Producer] = "p_body"
    /\ SHM_SIZE - free_offset >= BLOCK_HEADER_SIZE
    /\ \E n \in 1..MAX_NUMBERS :
         /\ free_offset + BLOCK_SIZE(n) <= SHM_SIZE + 1
         /\ count' = n
         /\ block' = [block EXCEPT ![free_offset] = [count |-> n, next |-> 0]]
    /\ Goto(Producer, "p_link")
    /\ UNCHANGED <<off, nums, last_block_offset, ipc, first_block_offset,
                   free_offset, producer_finished, kills, history>>

\* Fill a block of a random size at free_offset, if it fits.
FillBlock ==
    /\ pc[Producer] = "p_body"
    /\ SHM_SIZE - free_offset >= BLOCK_HEADER_SIZE
    /\ \E n \in 1..MAX_NUMBERS :
         /\ free_offset + BLOCK_SIZE(n) <= SHM_SIZE
         /\ count' = n
         /\ block' = [block EXCEPT ![free_offset] = [count |-> n, next |-> 0]]
    /\ Goto(Producer, "p_link")
    /\ UNCHANGED <<off, nums, last_block_offset, ipc, first_block_offset,
                   free_offset, producer_finished, kills, history>>

\* Either break of the loop: no room for a block header, or the drawn size
\* does not fit.
NoRoom ==
    /\ pc[Producer] = "p_body"
    /\ \/ SHM_SIZE - free_offset < BLOCK_HEADER_SIZE
       \/ \E n \in 1..MAX_NUMBERS : free_offset + BLOCK_SIZE(n) > SHM_SIZE
    /\ Goto(Producer, "p_signal_break")
    /\ UNCHANGED <<locals, ipc, memory, kills, history>>

\* Mutant: free_offset advances by the numbers, not by the block.
LinkBlock_ForgetsHeader ==
    /\ pc[Producer] = "p_link"
    /\ IF last_block_offset # 0
         THEN /\ block' = [block EXCEPT ![last_block_offset].next = free_offset]
              /\ UNCHANGED first_block_offset
         ELSE /\ first_block_offset' = free_offset
              /\ UNCHANGED block
    /\ last_block_offset' = free_offset
    /\ free_offset' = free_offset + count
    /\ Goto(Producer, "p_signal")
    /\ written' = written \union {free_offset}
    /\ size' = [size EXCEPT ![free_offset] = count]
    /\ UNCHANGED <<off, nums, count, ipc, producer_finished, kills, claims, reported>>

\* Append the filled block to the list.
LinkBlock ==
    /\ pc[Producer] = "p_link"
    /\ IF last_block_offset # 0
         THEN /\ block' = [block EXCEPT ![last_block_offset].next = free_offset]
              /\ UNCHANGED first_block_offset
         ELSE /\ first_block_offset' = free_offset
              /\ UNCHANGED block
    /\ last_block_offset' = free_offset
    /\ free_offset' = free_offset + BLOCK_SIZE(count)
    /\ Goto(Producer, "p_signal")
    /\ written' = written \union {free_offset}
    /\ size' = [size EXCEPT ![free_offset] = count]
    /\ UNCHANGED <<off, nums, count, ipc, producer_finished, kills, claims, reported>>

\* Mutant: the break leaves the loop without sem_signal.
LeaveProduce_BreakKeepsSem ==
    /\ \/ sem_signal(Producer, "p_signal", "p_wait")
       \/ /\ pc[Producer] = "p_signal_break"
          /\ Goto(Producer, "p_wait_finish")
          /\ UNCHANGED ipc
    /\ UNCHANGED <<locals, memory, kills, history>>

LeaveProduce ==
    /\ \/ sem_signal(Producer, "p_signal", "p_wait")
       \/ sem_signal(Producer, "p_signal_break", "p_wait_finish")
    /\ UNCHANGED <<locals, memory, kills, history>>

EnterFinish ==
    /\ sem_wait(Producer, "p_wait_finish", "p_finish")
    /\ UNCHANGED <<locals, memory, kills, history>>

SetFinished ==
    /\ pc[Producer] = "p_finish"
    /\ Goto(Producer, "p_signal_finish")
    /\ producer_finished' = 1
    /\ UNCHANGED <<locals, ipc, first_block_offset, free_offset, block, kills, history>>

LeaveFinish ==
    /\ sem_signal(Producer, "p_signal_finish", "p_wait_poll")
    /\ UNCHANGED <<locals, memory, kills, history>>

\* Mutant: the producer walks the list without the semaphore.
EnterPoll_NoWait ==
    /\ pc[Producer] = "p_wait_poll"
    /\ Goto(Producer, "p_poll")
    /\ off' = [off EXCEPT ![Producer] = first_block_offset]
    /\ UNCHANGED <<ipc, nums, count, last_block_offset, memory, kills, history>>

\* Take the semaphore and start a walk at the head of the list.
EnterPoll ==
    /\ sem_wait(Producer, "p_wait_poll", "p_poll")
    /\ off' = [off EXCEPT ![Producer] = first_block_offset]
    /\ UNCHANGED <<nums, count, last_block_offset, memory, kills, history>>

\* Mutant: all_done is not reset when an unclaimed set is met.
PollBlock_AllDoneKept ==
    /\ pc[Producer] = "p_poll"
    /\ LET o == off[Producer] IN
         \/ /\ o = 0 \/ block[o].count # 0
            /\ Goto(Producer, "p_signal_all_done") /\ UNCHANGED off
         \/ /\ o # 0 /\ block[o].count = 0
            /\ off' = [off EXCEPT ![Producer] = block[o].next] /\ UNCHANGED pc
    /\ UNCHANGED <<nums, count, last_block_offset, ipc, memory, kills, history>>

\* One iteration of the walk that looks for a set nobody claimed.
PollBlock ==
    /\ pc[Producer] = "p_poll"
    /\ LET o == off[Producer] IN
         \/ /\ o = 0
            /\ Goto(Producer, "p_signal_all_done") /\ UNCHANGED off
         \/ /\ o # 0 /\ block[o].count # 0
            /\ Goto(Producer, "p_signal_again") /\ UNCHANGED off
         \/ /\ o # 0 /\ block[o].count = 0
            /\ off' = [off EXCEPT ![Producer] = block[o].next] /\ UNCHANGED pc
    /\ UNCHANGED <<nums, count, last_block_offset, ipc, memory, kills, history>>

LeavePoll ==
    /\ \/ sem_signal(Producer, "p_signal_all_done", "p_rm_shm")
       \/ sem_signal(Producer, "p_signal_again", "p_wait_poll")
    /\ UNCHANGED <<locals, memory, kills, history>>

\* shmdt and IPC_RMID of the segment, after "all blocks are processed".
RemoveShm ==
    /\ pc[Producer] = "p_rm_shm"
    /\ Leave(Producer, "p_rm_sem")
    /\ shm' = "marked"
    /\ UNCHANGED <<locals, sem, semval, memory, kills, history>>

\* IPC_RMID of the semaphore wakes every waiter with EIDRM.
RemoveSem ==
    /\ pc[Producer] = "p_rm_sem"
    /\ Goto(Producer, "done")
    /\ sem' = "gone"
    /\ UNCHANGED <<locals, shm, attached, semval, memory, kills, history>>

producer_main ==
    \/ CreateShm \/ CreateSem \/ SetVal \/ AttachProducer
    \/ InitFirstBlockOffset \/ InitHeaderRest
    \/ EnterProduce \/ FillBlock \/ NoRoom \/ LinkBlock \/ LeaveProduce
    \/ EnterFinish \/ SetFinished \/ LeaveFinish
    \/ EnterPoll \/ PollBlock \/ LeavePoll \/ RemoveShm \/ RemoveSem

-----------------------------------------------------------------------------
(* A consumer *)

\* shmget: refused unless the segment has its key.
FindShm(c) ==
    /\ pc[c] = "c_start"
    /\ Goto(c, IF shm = "live" THEN "c_semget" ELSE "refused")
    /\ UNCHANGED <<locals, ipc, memory, kills, history>>

FindSem(c) ==
    /\ pc[c] = "c_semget"
    /\ Goto(c, IF sem = "live" THEN "c_shmat" ELSE "refused")
    /\ UNCHANGED <<locals, ipc, memory, kills, history>>

AttachConsumer(c) ==
    /\ pc[c] = "c_shmat"
    /\ IF ShmUsable
         THEN Goto(c, "c_wait") /\ attached' = attached \union {c}
         ELSE Goto(c, "refused") /\ UNCHANGED attached
    /\ UNCHANGED <<locals, shm, sem, semval, memory, kills, history>>

\* Mutant: a consumer walks the list without the semaphore.
EnterConsume_NoWait(c) ==
    /\ pc[c] = "c_wait" /\ sem = "live"
    /\ Goto(c, "c_scan")
    /\ off' = [off EXCEPT ![c] = first_block_offset]
    /\ UNCHANGED <<ipc, nums, count, last_block_offset, memory, kills, history>>

EnterConsume(c) ==
    /\ sem_wait(c, "c_wait", "c_scan")
    /\ off' = [off EXCEPT ![c] = first_block_offset]
    /\ UNCHANGED <<nums, count, last_block_offset, memory, kills, history>>

\* semop fails because the semaphore was removed: exit(EXIT_FAILURE).
SemopFails(c) ==
    /\ pc[c] \in {"c_wait", "c_signal_claim", "c_signal_end", "c_signal_idle"}
    /\ sem = "gone"
    /\ Leave(c, "failed")
    /\ UNCHANGED <<locals, shm, sem, semval, memory, kills, history>>

\* Mutant: producer_finished is looked at before the list was walked to its end.
ScanBlock_StopsEarly(c) ==
    /\ pc[c] = "c_scan"
    /\ LET o == off[c] IN
         \/ /\ o # 0 /\ block[o].count > 0 /\ producer_finished = 0
            /\ Goto(c, "c_copy") /\ UNCHANGED off
         \/ /\ o # 0 /\ ~(block[o].count > 0) /\ producer_finished = 0
            /\ off' = [off EXCEPT ![c] = block[o].next] /\ UNCHANGED pc
         \/ /\ producer_finished # 0
            /\ Goto(c, "c_signal_end") /\ UNCHANGED off
         \/ /\ o = 0 /\ producer_finished = 0
            /\ Goto(c, "c_signal_idle") /\ UNCHANGED off
    /\ UNCHANGED <<nums, count, last_block_offset, ipc, memory, kills, history>>

\* One iteration of the walk that looks for a set to claim; at the end of the
\* list the consumer stops if the producer has finished.
ScanBlock(c) ==
    /\ pc[c] = "c_scan"
    /\ LET o == off[c] IN
         \/ /\ o # 0 /\ block[o].count > 0
            /\ Goto(c, "c_copy") /\ UNCHANGED off
         \/ /\ o # 0 /\ ~(block[o].count > 0)
            /\ off' = [off EXCEPT ![c] = block[o].next] /\ UNCHANGED pc
         \/ /\ o = 0 /\ producer_finished # 0
            /\ Goto(c, "c_signal_end") /\ UNCHANGED off
         \/ /\ o = 0 /\ producer_finished = 0
            /\ Goto(c, "c_signal_idle") /\ UNCHANGED off
    /\ UNCHANGED <<nums, count, last_block_offset, ipc, memory, kills, history>>

\* Copy the set into the local array nums.
CopyNumbers(c) ==
    /\ pc[c] = "c_copy"
    /\ Goto(c, "c_claim")
    /\ nums' = [nums EXCEPT ![c] = block[off[c]].count]
    /\ UNCHANGED <<off, count, last_block_offset, ipc, memory, kills, history>>

\* block[0] = 0: the set belongs to this consumer.
ClaimBlock(c) ==
    /\ pc[c] = "c_claim"
    /\ Goto(c, "c_signal_claim")
    /\ block' = [block EXCEPT ![off[c]].count = 0]
    /\ claims' = [claims EXCEPT ![off[c]] = @ + 1]
    /\ UNCHANGED <<locals, ipc, first_block_offset, free_offset,
                   producer_finished, kills, written, size, reported>>

LeaveConsume(c) ==
    /\ \/ sem_signal(c, "c_signal_claim", "c_report")
       \/ sem_signal(c, "c_signal_idle", "c_wait")
    /\ UNCHANGED <<locals, memory, kills, history>>

\* Compute and print min and max outside the critical section, then sleep.
ReportMinMax(c) ==
    /\ pc[c] = "c_report"
    /\ Goto(c, "c_wait")
    /\ reported' = reported \union {off[c]}
    /\ nums' = [nums EXCEPT ![c] = 0]
    /\ UNCHANGED <<off, count, last_block_offset, ipc, memory, kills,
                   written, size, claims>>

\* sem_signal, break, shmdt and exit(EXIT_SUCCESS).
FinishConsumer(c) ==
    /\ pc[c] = "c_signal_end"
    /\ sem = "live"
    /\ semval' = semval + 1
    /\ Leave(c, "done")
    /\ UNCHANGED <<locals, shm, sem, memory, kills, history>>

consumer_main(c) ==
    \/ FindShm(c) \/ FindSem(c) \/ AttachConsumer(c)
    \/ EnterConsume(c) \/ SemopFails(c) \/ ScanBlock(c)
    \/ CopyNumbers(c) \/ ClaimBlock(c) \/ LeaveConsume(c)
    \/ ReportMinMax(c) \/ FinishConsumer(c)

-----------------------------------------------------------------------------
Ended == {"done", "failed", "refused", "killed"}

\* A process that has started is killed; the semaphore keeps its value.
Kill(p) ==
    /\ kills < MaxKills
    /\ pc[p] \notin Ended \union {"c_start", "p_start"}
    /\ kills' = kills + 1
    /\ Leave(p, "killed")
    /\ UNCHANGED <<locals, shm, sem, semval, memory, history>>

Next ==
    \/ producer_main
    \/ \E c \in Consumers : consumer_main(c)
    \/ \E p \in Procs : Kill(p)

Spec == Init /\ [][Next]_vars

\* A started process keeps running.  SysV semaphores serve their waiters in
\* order, so nobody waits for a semaphore that is released again and again.
\* Starting a process is up to the user.
Fairness ==
    /\ WF_vars(producer_main /\ pc[Producer] # "p_start")
    /\ SF_vars(EnterProduce) /\ SF_vars(EnterFinish) /\ SF_vars(EnterPoll)
    /\ \A c \in Consumers : /\ WF_vars(consumer_main(c) /\ pc[c] # "c_start")
                            /\ SF_vars(EnterConsume(c))

FairSpec == Spec /\ Fairness

-----------------------------------------------------------------------------
Pcs == {"p_start", "p_semget", "p_setval", "p_shmat", "p_init_first",
        "p_init_rest", "p_wait", "p_body", "p_link", "p_signal",
        "p_signal_break", "p_wait_finish", "p_finish", "p_signal_finish",
        "p_wait_poll", "p_poll", "p_signal_all_done", "p_signal_again",
        "p_rm_shm", "p_rm_sem", "c_start", "c_semget", "c_shmat", "c_wait",
        "c_scan", "c_copy", "c_claim", "c_signal_claim", "c_signal_end",
        "c_signal_idle", "c_report", "done", "failed", "refused", "killed"}

\* The steps between a sem_wait and the matching sem_signal.
Critical == {"p_body", "p_link", "p_signal", "p_signal_break", "p_finish",
             "p_signal_finish", "p_poll", "p_signal_all_done",
             "p_signal_again", "c_scan", "c_copy", "c_claim",
             "c_signal_claim", "c_signal_end", "c_signal_idle"}

\* Every variable keeps the type of its C counterpart: in particular the
\* offsets stored in the segment stay inside it and semval is 0 or 1.
TypeOK ==
    /\ pc \in [Procs -> Pcs]
    /\ off \in [Procs -> Offsets]
    /\ nums \in [Consumers -> 0..MAX_NUMBERS]
    /\ count \in 0..MAX_NUMBERS
    /\ last_block_offset \in Offsets
    /\ shm \in {"none", "live", "marked"}
    /\ attached \subseteq Procs
    /\ sem \in {"none", "live", "gone"}
    /\ semval \in {0, 1}
    /\ first_block_offset \in Offsets
    /\ free_offset \in Offsets
    /\ producer_finished \in {0, 1}
    /\ block \in [Offsets -> [count : 0..MAX_NUMBERS, next : Offsets]]
    /\ kills \in Nat
    /\ written \subseteq Offsets
    /\ size \in [Offsets -> 0..MAX_NUMBERS]
    /\ claims \in [Offsets -> Nat]
    /\ reported \subseteq Offsets

\* All sets linked into the list have been claimed.
Drained == \A b \in written : block[b].count = 0

\* At most one process is between sem_wait and sem_signal, although consumers
\* can open the semaphore before SETVAL gives it its value and keep running
\* after IPC_RMID took it away.
MutualExclusion ==
    \A p, q \in Procs : pc[p] \in Critical /\ pc[q] \in Critical => p = q

\* The list is sound whenever a process that walks it may look at it: blocks
\* lie one after the other inside the segment, each leads to the next, the
\* last one (and only it) ends the list, and an unclaimed block still has the
\* size it was written with.
ListSound ==
    (\E p \in Procs : pc[p] \in {"p_poll", "c_scan", "c_copy", "c_claim"}) =>
        /\ \A b \in written :
              /\ HEADER_SIZE <= b /\ b + BLOCK_SIZE(size[b]) <= free_offset
              /\ block[b].count \in {0, size[b]}
              /\ IF b = last_block_offset
                   THEN block[b].next = 0
                   ELSE /\ block[b].next \in written
                        /\ block[b].next = b + BLOCK_SIZE(size[b])
        /\ written # {} => first_block_offset \in written
        /\ \A a, b \in written : a < b => a + BLOCK_SIZE(size[a]) <= b

\* No set is handed to two consumers, and a set whose count was zeroed was
\* handed to one: a block is marked consumed exactly when it was claimed once.
ClaimedOnce ==
    \A b \in written :
        claims[b] = IF block[b].count = 0 THEN 1 ELSE 0

\* The segment is only removed once no set is left in it, so that the
\* producer never destroys work, whatever consumers start or die meanwhile.
RemovedOnlyDrained == shm = "marked" => Drained

\* A consumer ends with EXIT_SUCCESS only after every set of the producer was
\* claimed, and a semop that fails under it (the semaphore was removed) also
\* costs no set.
NoSetAbandoned ==
    \A c \in Consumers : pc[c] \in {"done", "failed"} => Drained

\* A claimed set is printed unless its consumer is killed: the consumer that
\* claimed it holds the copy until it prints it, and is never thrown out by a
\* failing sem_signal in between.
NoClaimLost ==
    kills = 0 =>
        \A b \in written :
            claims[b] > 0 =>
                \/ b \in reported
                \/ \E c \in Consumers :
                     /\ off[c] = b /\ nums[c] = size[b]
                     /\ pc[c] \in {"c_signal_claim", "c_report"}

\* A producer that ended by itself, in any of its error exits or normally,
\* leaves no IPC object behind.
NoIpcLeak ==
    pc[Producer] \in {"done", "failed"} => shm # "live" /\ sem # "live"

\* Nobody is killed: once a consumer is in its loop, the producer and that
\* consumer both end.
Completion ==
    \A c \in Consumers :
        pc[c] = "c_wait" ~> \/ kills > 0
                            \/ pc[c] \in Ended /\ pc[Producer] \in Ended

\* The message of line 174, "all blocks are processed", taken literally: when
\* the producer has seen no unclaimed set and goes on to remove the segment,
\* min and max of every set have been printed.
AllProcessedMessage ==
    pc[Producer] \in {"p_rm_shm", "p_rm_sem"} => written \subseteq reported

-----------------------------------------------------------------------------
(* Refinement *)

\* What a consumer has claimed and not printed yet.
Holds(c) == IF pc[c] \in {"c_signal_claim", "c_report"} THEN {off[c]} ELSE {}

Held    == [c \in Consumers |-> Holds(c)]
Claimed == {o \in Offsets : claims[o] > 0}

At(label) == {c \in Consumers : pc[c] = label}

Service == INSTANCE SetService WITH
    Workers  <- Consumers,
    Sets     <- Offsets,
    posted   <- written,
    taken    <- Claimed,
    holds    <- Held,
    reported <- reported,
    finished <- (producer_finished = 1),
    closed   <- (shm = "marked"),
    retired  <- At("done"),
    crashed  <- At("killed")

\* Consumers and producer that share a segment, a list of blocks and a semaphore,
\* all of which come, go and lose their users at any time, behave like a service
\* that hands each set to one worker, loses a set only with a killed worker, takes
\* nothing after it finished, and is closed or left only when no set waits.
HandsOutEachSet == Service!Spec
=============================================================================

---------------------------- MODULE ShmQueueProofs ----------------------------
(***************************************************************************)
(* Safety of ShmQueue for every set of consumers, every segment size, every *)
(* largest set and any number of killed processes.                          *)
(***************************************************************************)
EXTENDS ShmQueue, TLAPS

\* Before SETVAL.
Early == {"p_start", "p_semget", "p_setval"}

\* Before the header is initialised.
PreInit == {"p_start", "p_semget", "p_setval", "p_shmat", "p_init_first", "p_init_rest"}

\* After producer_finished was set: nothing more is linked.
PostFinish == {"p_signal_finish", "p_wait_poll", "p_poll", "p_signal_all_done",
               "p_signal_again", "p_rm_shm", "p_rm_sem", "done", "killed"}

\* After the walk that found no unclaimed set.
AllDone == {"p_signal_all_done", "p_rm_shm", "p_rm_sem", "done"}

\* Producer and consumers have their own labels.
LabelInv ==
    /\ pc[Producer] \in {"p_start", "p_semget", "p_setval", "p_shmat",
         "p_init_first", "p_init_rest", "p_wait", "p_body", "p_link", "p_signal",
         "p_signal_break", "p_wait_finish", "p_finish", "p_signal_finish",
         "p_wait_poll", "p_poll", "p_signal_all_done", "p_signal_again",
         "p_rm_shm", "p_rm_sem", "done", "failed", "killed"}
    /\ \A c \in Consumers : pc[c] \in {"c_start", "c_semget", "c_shmat", "c_wait",
         "c_scan", "c_copy", "c_claim", "c_signal_claim", "c_signal_end",
         "c_signal_idle", "c_report", "done", "failed", "refused", "killed"}

\* The semaphore is down while somebody is inside, and until SETVAL.
LockInv ==
    /\ MutualExclusion
    /\ (\E p \in Procs : pc[p] \in Critical) => semval = 0
    /\ pc[Producer] \in Early =>
         semval = 0 /\ \A p \in Procs : pc[p] \notin Critical

\* Which objects exist, by the producer's place in its code.
PhaseInv ==
    /\ pc[Producer] = "p_start" => shm = "none" /\ sem = "none"
    /\ pc[Producer] = "p_semget" => sem = "none"
    /\ pc[Producer] = "p_rm_sem" => shm = "marked"
    /\ pc[Producer] \in {"done", "failed"} => shm # "live" /\ sem # "live"
    /\ sem = "gone" => pc[Producer] \in {"done", "failed"}
    /\ shm = "marked" => pc[Producer] \in {"p_rm_sem", "done", "failed", "killed"} /\ Drained
    /\ pc[Producer] \in PreInit \union {"failed"} => written = {}
    /\ producer_finished = 1 => pc[Producer] \in PostFinish
    /\ pc[Producer] \in AllDone => Drained

\* The header, before and after the first block.
HeaderInv ==
    /\ written = {} => last_block_offset = 0 /\ first_block_offset \in {0, HEADER_SIZE}
    /\ pc[Producer] \notin PreInit \union {"failed", "killed"} =>
         /\ free_offset >= HEADER_SIZE
         /\ written = {} => free_offset = HEADER_SIZE
    /\ written # {} =>
         /\ first_block_offset = HEADER_SIZE /\ HEADER_SIZE \in written
         /\ last_block_offset \in written
         /\ last_block_offset + BLOCK_SIZE(size[last_block_offset]) = free_offset

\* The written blocks lie one after the other and form the list.
ListInv ==
    /\ \A b \in written :
         /\ HEADER_SIZE <= b /\ size[b] >= 1 /\ b + BLOCK_SIZE(size[b]) <= free_offset
         /\ block[b].count \in {0, size[b]}
         /\ b = last_block_offset => block[b].next = 0
         /\ b # last_block_offset => /\ block[b].next \in written
                                     /\ block[b].next = b + BLOCK_SIZE(size[b])
    /\ \A a, b \in written : a < b => a + BLOCK_SIZE(size[a]) <= b

\* Between filling and linking, and before the first block.
FillInv ==
    /\ pc[Producer] = "p_link" =>
         /\ count >= 1 /\ free_offset + BLOCK_SIZE(count) <= SHM_SIZE
         /\ block[free_offset] = [count |-> count, next |-> 0]
    /\ written = {} =>
         \/ block[HEADER_SIZE] = Zero
         \/ /\ semval = 0 /\ pc[Producer] \in {"p_link", "killed"}
            /\ \A c \in Consumers : pc[c] \notin Critical

\* A walk has only claimed blocks behind it.
WalkInv ==
    \A p \in Procs : pc[p] \in {"c_scan", "p_poll"} =>
        /\ \/ off[p] = 0
           \/ off[p] \in written
           \/ written = {} /\ off[p] = HEADER_SIZE
        /\ \A b \in written : off[p] = 0 \/ b < off[p] => block[b].count = 0

\* What a consumer knows at each of its steps.
ConsumerInv ==
    \A c \in Consumers :
        /\ pc[c] \in {"c_copy", "c_claim"} => off[c] \in written /\ block[off[c]].count > 0
        /\ pc[c] \in {"c_signal_claim", "c_report"} => off[c] \in written
        /\ pc[c] \in {"c_claim", "c_signal_claim", "c_report"} => nums[c] = size[off[c]]
        /\ pc[c] = "c_signal_claim" => pc[Producer] \notin AllDone
        /\ pc[c] \in {"c_signal_end", "done"} => producer_finished = 1 /\ Drained
        /\ pc[c] = "failed" => sem = "gone"

\* A block is zeroed exactly when it was claimed, and that happens once.
ClaimInv ==
    \A o \in Offsets :
        claims[o] = IF o \in written /\ block[o].count = 0 THEN 1 ELSE 0

\* The inductive invariant.
IndInv ==
    /\ TypeOK /\ LabelInv /\ LockInv /\ PhaseInv /\ HeaderInv /\ ListInv
    /\ FillInv /\ WalkInv /\ ConsumerInv /\ ClaimInv

\* A step that neither enters nor leaves, or that leaves by dying, keeps the lock invariant.
LEMMA LockStay ==
  ASSUME LockInv, pc \in [Procs -> Pcs], NEW p \in Procs, NEW l,
         pc' = [pc EXCEPT ![p] = l], semval' = semval,
         l \in Critical => pc[p] \in Critical,
         l \in Early => pc[p] \in Early
  PROVE  LockInv'
BY DEF LockInv, MutualExclusion, Procs

\* Entering takes the semaphore from 1 to 0.
LEMMA LockEnter ==
  ASSUME LockInv, pc \in [Procs -> Pcs], NEW p \in Procs, NEW l,
         pc' = [pc EXCEPT ![p] = l], semval = 1, semval' = 0, l \notin Early
  PROVE  LockInv'
BY DEF LockInv, MutualExclusion, Procs

\* Leaving may raise the semaphore: nobody else is inside.
LEMMA LockLeave ==
  ASSUME LockInv, pc \in [Procs -> Pcs], NEW p \in Procs, NEW l,
         pc' = [pc EXCEPT ![p] = l], pc[p] \in Critical,
         l \notin Critical, l \notin Early
  PROVE  LockInv'
BY DEF LockInv, MutualExclusion, Procs

\* While a process is inside, the semaphore is 0 and everybody else is outside.
LEMMA OnlyOneInside ==
  ASSUME IndInv, NEW p \in Procs, pc[p] \in Critical
  PROVE  semval = 0 /\ \A q \in Procs \ {p} : pc[q] \notin Critical
BY DEF IndInv, LockInv, MutualExclusion

\* What arithmetic needs to know of the variables.
LEMMA NumberTypes ==
  ASSUME TypeOK
  PROVE  /\ free_offset \in Nat /\ last_block_offset \in Nat /\ first_block_offset \in Nat
         /\ count \in Nat
         /\ written \subseteq Offsets
         /\ \A o \in Offsets : /\ o \in Nat /\ size[o] \in Nat /\ claims[o] \in Nat
                               /\ block[o].count \in Nat /\ block[o].next \in Nat
<1>1. Offsets \subseteq Nat /\ 0..MAX_NUMBERS \subseteq Nat
  BY ShmAssumption DEF Offsets
<1>. QED
  BY <1>1 DEF TypeOK

\* free_offset lies beyond every written block.
LEMMA FreeIsBeyond ==
  ASSUME IndInv
  PROVE  \A b \in written : b < free_offset
<1>1. \A b \in written : b \in Nat /\ size[b] \in Nat /\ free_offset \in Nat
  BY NumberTypes DEF IndInv
<1>. QED
  BY <1>1 DEF IndInv, ListInv, BLOCK_SIZE, BLOCK_HEADER_SIZE

\* A walk that starts at first_block_offset skips no written block.
LEMMA WalkStart ==
  ASSUME IndInv
  PROVE  /\ \/ first_block_offset = 0
            \/ first_block_offset \in written
            \/ written = {} /\ first_block_offset = HEADER_SIZE
         /\ \A b \in written : ~(first_block_offset = 0 \/ b < first_block_offset)
BY DEF IndInv, TypeOK, HeaderInv, ListInv, Offsets, HEADER_SIZE

\* Following "next" from a claimed block skips no unclaimed one; next = 0 is the end.
LEMMA WalkStep ==
  ASSUME IndInv, NEW p \in Procs, pc[p] \in {"c_scan", "p_poll"},
         off[p] # 0, block[off[p]].count = 0
  PROVE  LET n == block[off[p]].next IN
           /\ n = 0 \/ n \in written
           /\ \A b \in written : n = 0 \/ b < n => block[b].count = 0
<1>1. CASE off[p] \in written
  <2>1. \A b \in written : b < off[p] => block[b].count = 0
    BY DEF IndInv, WalkInv
  <2>2. CASE off[p] = last_block_offset
    <3>1. \A b \in written : b <= off[p]
      <4>1. \A b \in written : b \in Nat /\ size[b] \in Nat
        BY NumberTypes DEF IndInv
      <4>. QED
        BY <1>1, <2>2, <4>1 DEF IndInv, HeaderInv, ListInv, BLOCK_SIZE, BLOCK_HEADER_SIZE
    <3>. QED
      BY <1>1, <2>1, <2>2, <3>1 DEF IndInv, TypeOK, ListInv, Offsets
  <2>3. CASE off[p] # last_block_offset
    <3>1. block[off[p]].next \in written /\ block[off[p]].next = off[p] + BLOCK_SIZE(size[off[p]])
      BY <1>1, <2>3 DEF IndInv, ListInv
    <3>2. \A b \in written : b < block[off[p]].next => b <= off[p]
      BY <1>1, <3>1 DEF IndInv, TypeOK, ListInv, Offsets, BLOCK_SIZE, BLOCK_HEADER_SIZE
    <3>. QED
      BY <1>1, <2>1, <3>1, <3>2 DEF IndInv, TypeOK, ListInv, Offsets, HEADER_SIZE
  <2>. QED BY <2>2, <2>3
<1>2. CASE off[p] \notin written
  <2>1. written = {} /\ off[p] = HEADER_SIZE
    BY <1>2 DEF IndInv, WalkInv
  <2>2. block[HEADER_SIZE] = Zero
    <3>1. pc[p] \in Critical /\ pc[p] \notin {"p_link", "killed"}
      BY DEF Critical
    <3>2. CASE p = Producer
      BY <2>1, <3>1, <3>2 DEF IndInv, FillInv
    <3>3. CASE p \in Consumers
      BY <2>1, <3>1, <3>3 DEF IndInv, FillInv
    <3>. QED BY <3>2, <3>3 DEF Procs
  <2>. QED BY <2>1, <2>2 DEF Zero
<1>. QED BY <1>1, <1>2

\* An unclaimed block met by a walk is one that was linked.
LEMMA FoundIsWritten ==
  ASSUME IndInv, NEW p \in Procs, pc[p] \in {"c_scan", "p_poll"},
         off[p] # 0, block[off[p]].count > 0
  PROVE  off[p] \in written
<1>. SUFFICES ASSUME off[p] \notin written PROVE FALSE
  OBVIOUS
<1>1. written = {} /\ off[p] = HEADER_SIZE
  BY DEF IndInv, WalkInv
<1>2. block[HEADER_SIZE] = Zero
  <2>1. pc[p] \in Critical /\ pc[p] \notin {"p_link", "killed"}
    BY DEF Critical
  <2>2. CASE p = Producer
    BY <1>1, <2>1, <2>2 DEF IndInv, FillInv
  <2>3. CASE p \in Consumers
    BY <1>1, <2>1, <2>3 DEF IndInv, FillInv
  <2>. QED BY <2>2, <2>3 DEF Procs
<1>. QED BY <1>1, <1>2 DEF Zero

\* shmget: no list yet, nobody inside.
LEMMA CreateShmPreserves ==
  ASSUME IndInv, CreateShm
  PROVE  IndInv'
<1>0. Producer \in Procs
  BY DEF Procs
<1>1. TypeOK'
  BY ShmAssumption, <1>0
  DEF IndInv, TypeOK, Pcs, Procs, Offsets, Goto, locals, memory, history, CreateShm
<1>2. LockInv'
  BY LockStay, <1>0 DEF IndInv, TypeOK, Early, Critical, CreateShm, Goto, locals
<1>3. LabelInv' /\ PhaseInv'
  BY ShmAssumption, <1>0
  DEF IndInv, TypeOK, LabelInv, Procs, Goto, locals, memory, history, CreateShm, PhaseInv,
      PreInit, PostFinish, AllDone, Drained
<1>4. HeaderInv' /\ ListInv' /\ ClaimInv'
  BY ShmAssumption, <1>0
  DEF IndInv, TypeOK, HeaderInv, PhaseInv, PreInit, Procs, Offsets, BLOCK_SIZE, HEADER_SIZE,
      BLOCK_HEADER_SIZE, Goto, locals, memory, history, CreateShm, ListInv, ClaimInv
<1>5. FillInv'
  BY ShmAssumption, <1>0
  DEF IndInv, TypeOK, LabelInv, FillInv, PhaseInv, HeaderInv, PreInit, Procs, Critical, Goto,
      locals, memory, history, CreateShm
<1>6. WalkInv' /\ ConsumerInv'
  BY ShmAssumption, <1>0
  DEF IndInv, TypeOK, WalkInv, PhaseInv, HeaderInv, PreInit, Procs, Goto, locals, memory,
      history, CreateShm, ConsumerInv, AllDone, Drained
<1>. QED
  BY <1>1, <1>2, <1>3, <1>4, <1>5, <1>6 DEF IndInv

\* semget: the semaphore appears with value 0.
LEMMA CreateSemPreserves ==
  ASSUME IndInv, CreateSem
  PROVE  IndInv'
<1>0. Producer \in Procs
  BY DEF Procs
<1>1. TypeOK'
  BY ShmAssumption, <1>0
  DEF IndInv, TypeOK, Pcs, Procs, Offsets, Goto, locals, memory, history, CreateSem
<1>2. LockInv'
  BY LockStay, <1>0 DEF IndInv, TypeOK, Early, Critical, CreateSem, Goto, locals
<1>3. LabelInv' /\ PhaseInv'
  BY ShmAssumption, <1>0
  DEF IndInv, TypeOK, LabelInv, Procs, Goto, locals, memory, history, CreateSem, PhaseInv,
      PreInit, PostFinish, AllDone, Drained
<1>4. HeaderInv' /\ ListInv' /\ ClaimInv'
  BY ShmAssumption, <1>0
  DEF IndInv, TypeOK, HeaderInv, PhaseInv, PreInit, Procs, Offsets, BLOCK_SIZE, HEADER_SIZE,
      BLOCK_HEADER_SIZE, Goto, locals, memory, history, CreateSem, ListInv, ClaimInv
<1>5. FillInv'
  BY ShmAssumption, <1>0
  DEF IndInv, TypeOK, LabelInv, FillInv, PhaseInv, HeaderInv, PreInit, Procs, Critical, Goto,
      locals, memory, history, CreateSem
<1>6. WalkInv' /\ ConsumerInv'
  BY ShmAssumption, <1>0
  DEF IndInv, TypeOK, WalkInv, PhaseInv, HeaderInv, PreInit, Procs, Goto, locals, memory,
      history, CreateSem, ConsumerInv, AllDone, Drained
<1>. QED
  BY <1>1, <1>2, <1>3, <1>4, <1>5, <1>6 DEF IndInv

\* SETVAL opens the semaphore while nobody is inside.
LEMMA SetValPreserves ==
  ASSUME IndInv, SetVal
  PROVE  IndInv'
<1>0. Producer \in Procs
  BY DEF Procs
<1>1. TypeOK'
  BY ShmAssumption, <1>0
  DEF IndInv, TypeOK, Pcs, Procs, Offsets, Goto, locals, memory, history, RemoveBoth, SetVal
<1>2. LockInv'
  BY LockStay DEF IndInv, TypeOK, LockInv, Early, Critical, Procs, MutualExclusion, SetVal, Goto
<1>3. LabelInv' /\ PhaseInv'
  BY ShmAssumption, <1>0
  DEF IndInv, TypeOK, LabelInv, Procs, Goto, locals, memory, history, RemoveBoth, SetVal,
      PhaseInv, PreInit, PostFinish, AllDone, Drained
<1>4. HeaderInv' /\ ListInv' /\ ClaimInv'
  BY ShmAssumption, <1>0
  DEF IndInv, TypeOK, HeaderInv, PhaseInv, PreInit, Procs, Offsets, BLOCK_SIZE, HEADER_SIZE,
      BLOCK_HEADER_SIZE, Goto, locals, memory, history, RemoveBoth, SetVal, ListInv, ClaimInv
<1>5. FillInv'
  BY ShmAssumption, <1>0
  DEF IndInv, TypeOK, LabelInv, FillInv, PhaseInv, HeaderInv, PreInit, Procs, Critical, Goto,
      locals, memory, history, RemoveBoth, SetVal
<1>6. WalkInv' /\ ConsumerInv'
  BY ShmAssumption, <1>0
  DEF IndInv, TypeOK, WalkInv, PhaseInv, HeaderInv, PreInit, Procs, Goto, locals, memory,
      history, RemoveBoth, SetVal, ConsumerInv, AllDone, Drained
<1>. QED
  BY <1>1, <1>2, <1>3, <1>4, <1>5, <1>6 DEF IndInv

\* shmat of the producer.
LEMMA AttachProducerPreserves ==
  ASSUME IndInv, AttachProducer
  PROVE  IndInv'
<1>0. Producer \in Procs
  BY DEF Procs
<1>1. TypeOK'
  BY ShmAssumption, <1>0
  DEF IndInv, TypeOK, Pcs, Procs, Offsets, Goto, locals, memory, history, RemoveBoth,
      AttachProducer
<1>2. LockInv'
  BY LockStay, <1>0 DEF IndInv, TypeOK, Early, Critical, AttachProducer, Goto, locals
<1>3. LabelInv' /\ PhaseInv'
  BY ShmAssumption, <1>0
  DEF IndInv, TypeOK, LabelInv, Procs, Goto, locals, memory, history, RemoveBoth,
      AttachProducer, PhaseInv, PreInit, PostFinish, AllDone, Drained
<1>4. HeaderInv' /\ ListInv' /\ ClaimInv'
  BY ShmAssumption, <1>0
  DEF IndInv, TypeOK, HeaderInv, PhaseInv, PreInit, Procs, Offsets, BLOCK_SIZE, HEADER_SIZE,
      BLOCK_HEADER_SIZE, Goto, locals, memory, history, RemoveBoth, AttachProducer, ListInv,
      ClaimInv
<1>5. FillInv'
  BY ShmAssumption, <1>0
  DEF IndInv, TypeOK, LabelInv, FillInv, PhaseInv, HeaderInv, PreInit, Procs, Critical, Goto,
      locals, memory, history, RemoveBoth, AttachProducer
<1>6. WalkInv' /\ ConsumerInv'
  BY ShmAssumption, <1>0
  DEF IndInv, TypeOK, WalkInv, PhaseInv, HeaderInv, PreInit, Procs, Goto, locals, memory,
      history, RemoveBoth, AttachProducer, ConsumerInv, AllDone, Drained
<1>. QED
  BY <1>1, <1>2, <1>3, <1>4, <1>5, <1>6 DEF IndInv

\* The first header field, written while consumers may walk an empty list.
LEMMA InitFirstBlockOffsetPreserves ==
  ASSUME IndInv, InitFirstBlockOffset
  PROVE  IndInv'
<1>0. Producer \in Procs
  BY DEF Procs
<1>1. TypeOK'
  <2>1. first_block_offset' \in Offsets /\ pc' \in [Procs -> Pcs]
    BY ShmAssumption, <1>0
    DEF IndInv, TypeOK, Pcs, Offsets, HEADER_SIZE, InitFirstBlockOffset, Goto
  <2>. QED
    BY <2>1 DEF IndInv, TypeOK, locals, ipc, memory, history, InitFirstBlockOffset
<1>2. LockInv'
  BY LockStay, <1>0 DEF IndInv, TypeOK, Early, Critical, InitFirstBlockOffset, Goto, locals, ipc
<1>3. LabelInv' /\ PhaseInv'
  BY ShmAssumption, <1>0
  DEF IndInv, TypeOK, LabelInv, Procs, Goto, locals, ipc, history, InitFirstBlockOffset,
      PhaseInv, PreInit, PostFinish, AllDone, Drained
<1>4. HeaderInv' /\ ListInv' /\ ClaimInv'
  BY ShmAssumption, <1>0
  DEF IndInv, TypeOK, HeaderInv, PhaseInv, PreInit, Procs, Offsets, BLOCK_SIZE, HEADER_SIZE,
      BLOCK_HEADER_SIZE, Goto, locals, ipc, history, InitFirstBlockOffset, ListInv, ClaimInv
<1>5. FillInv'
  BY ShmAssumption, <1>0
  DEF IndInv, TypeOK, LabelInv, FillInv, PhaseInv, HeaderInv, PreInit, Procs, Critical, Goto,
      locals, ipc, history, InitFirstBlockOffset
<1>6. WalkInv' /\ ConsumerInv'
  BY ShmAssumption, <1>0
  DEF IndInv, TypeOK, WalkInv, PhaseInv, HeaderInv, PreInit, Procs, Goto, locals, ipc, history,
      InitFirstBlockOffset, ConsumerInv, AllDone, Drained
<1>. QED
  BY <1>1, <1>2, <1>3, <1>4, <1>5, <1>6 DEF IndInv

\* The other header fields: from here on free_offset is where the list ends.
LEMMA InitHeaderRestPreserves ==
  ASSUME IndInv, InitHeaderRest
  PROVE  IndInv'
<1>0. Producer \in Procs
  BY DEF Procs
<1>1. TypeOK'
  <2>1. free_offset' \in Offsets /\ pc' \in [Procs -> Pcs]
    BY ShmAssumption, <1>0 DEF IndInv, TypeOK, Pcs, Offsets, HEADER_SIZE, InitHeaderRest, Goto
  <2>. QED
    BY <2>1 DEF IndInv, TypeOK, locals, ipc, memory, history, InitHeaderRest
<1>2. LockInv'
  BY LockStay, <1>0 DEF IndInv, TypeOK, Early, Critical, InitHeaderRest, Goto, locals, ipc
<1>3. LabelInv' /\ PhaseInv'
  BY ShmAssumption, <1>0
  DEF IndInv, TypeOK, LabelInv, Procs, Goto, locals, ipc, history, InitHeaderRest, PhaseInv,
      PreInit, PostFinish, AllDone, Drained
<1>4. ListInv' /\ ClaimInv'
  BY ShmAssumption, <1>0
  DEF IndInv, TypeOK, ListInv, PhaseInv, PreInit, Procs, Goto, locals, ipc, history,
      InitHeaderRest, ClaimInv, Offsets
<1>5. HeaderInv'
  <2>1. written' = {} /\ free_offset' = HEADER_SIZE /\ HEADER_SIZE >= HEADER_SIZE
    BY DEF IndInv, PhaseInv, PreInit, InitHeaderRest, history, HEADER_SIZE
  <2>. QED
    BY <2>1 DEF IndInv, HeaderInv, PhaseInv, PreInit, InitHeaderRest, locals, history
<1>6. FillInv'
  BY ShmAssumption, <1>0
  DEF IndInv, TypeOK, LabelInv, FillInv, PhaseInv, HeaderInv, PreInit, Procs, Critical, Goto,
      locals, ipc, history, InitHeaderRest
<1>7. WalkInv'
  BY ShmAssumption, <1>0
  DEF IndInv, TypeOK, WalkInv, PhaseInv, HeaderInv, PreInit, Procs, Goto, locals, ipc, history,
      InitHeaderRest
<1>8. ConsumerInv'
  <2>1. producer_finished = 0
    BY DEF IndInv, TypeOK, PhaseInv, PostFinish, InitHeaderRest
  <2>. QED
    BY <1>0, <2>1
    DEF IndInv, TypeOK, ConsumerInv, PhaseInv, AllDone, Drained, Procs, Goto, locals, ipc,
        history, InitHeaderRest
<1>. QED
  BY <1>1, <1>2, <1>3, <1>4, <1>5, <1>6, <1>7, <1>8 DEF IndInv

\* The producer enters to write a block.
LEMMA EnterProducePreserves ==
  ASSUME IndInv, EnterProduce
  PROVE  IndInv'
<1>0. Producer \in Procs
  BY DEF Procs
<1>1. TypeOK'
  <2>1. semval = 1 /\ semval' = 0
    BY DEF IndInv, TypeOK, EnterProduce, sem_wait
  <2>. QED
    BY <1>0, <2>1
    DEF IndInv, TypeOK, Pcs, Procs, Offsets, Goto, locals, memory, history, sem_wait,
        EnterProduce
<1>2. LockInv'
  <2>1. semval = 1 /\ semval' = 0
    BY DEF IndInv, TypeOK, EnterProduce, sem_wait
  <2>. QED
    BY <1>0, <2>1, LockEnter DEF IndInv, TypeOK, Early, EnterProduce, sem_wait, Goto
<1>3. LabelInv' /\ PhaseInv'
  BY ShmAssumption, <1>0
  DEF IndInv, TypeOK, LabelInv, Procs, Goto, locals, memory, history, sem_wait, EnterProduce,
      PhaseInv, PreInit, PostFinish, AllDone, Drained
<1>4. HeaderInv' /\ ListInv' /\ ClaimInv'
  BY ShmAssumption, <1>0
  DEF IndInv, TypeOK, HeaderInv, PhaseInv, PreInit, Procs, Offsets, BLOCK_SIZE, HEADER_SIZE,
      BLOCK_HEADER_SIZE, Goto, locals, memory, history, sem_wait, EnterProduce, ListInv, ClaimInv
<1>5. FillInv'
  BY ShmAssumption, <1>0
  DEF IndInv, TypeOK, LabelInv, FillInv, PhaseInv, HeaderInv, PreInit, Procs, Critical, Goto,
      locals, memory, history, sem_wait, EnterProduce
<1>6. WalkInv' /\ ConsumerInv'
  BY ShmAssumption, <1>0
  DEF IndInv, TypeOK, WalkInv, PhaseInv, HeaderInv, PreInit, Procs, Goto, locals, memory,
      history, sem_wait, EnterProduce, ConsumerInv, AllDone, Drained
<1>. QED
  BY <1>1, <1>2, <1>3, <1>4, <1>5, <1>6 DEF IndInv

\* The block beyond the list is filled; no written block changes.
LEMMA FillBlockPreserves ==
  ASSUME IndInv, FillBlock
  PROVE  IndInv'
<1>0. Producer \in Procs
  BY DEF Procs
<1>a. free_offset \in Offsets /\ free_offset \notin written
  BY NumberTypes, FreeIsBeyond DEF IndInv, TypeOK
<1>1. TypeOK'
  <2>1. PICK n \in 1..MAX_NUMBERS :
           count' = n /\ block' = [block EXCEPT ![free_offset] = [count |-> n, next |-> 0]]
    BY DEF FillBlock
  <2>2. n \in 0..MAX_NUMBERS /\ 0 \in Offsets
    BY ShmAssumption DEF Offsets
  <2>3. block' \in [Offsets -> [count : 0..MAX_NUMBERS, next : Offsets]]
    BY <2>1, <2>2 DEF IndInv, TypeOK
  <2>4. pc' \in [Procs -> Pcs]
    BY <1>0 DEF IndInv, TypeOK, Pcs, FillBlock, Goto
  <2>. QED
    BY <2>1, <2>2, <2>3, <2>4 DEF IndInv, TypeOK, ipc, history, FillBlock
<1>2. LockInv'
  BY LockStay, <1>0 DEF IndInv, TypeOK, Early, Critical, FillBlock, Goto, ipc
<1>3. LabelInv' /\ PhaseInv'
  BY ShmAssumption, <1>0
  DEF IndInv, TypeOK, LabelInv, Procs, Goto, ipc, history, FillBlock, PhaseInv, PreInit,
      PostFinish, AllDone, Drained
<1>4. HeaderInv'
  BY ShmAssumption, <1>0
  DEF IndInv, TypeOK, HeaderInv, PhaseInv, PreInit, Procs, Offsets, BLOCK_SIZE, HEADER_SIZE,
      BLOCK_HEADER_SIZE, Goto, ipc, history, FillBlock
<1>5. ListInv'
  BY ShmAssumption, <1>0, <1>a
  DEF IndInv, TypeOK, ListInv, PhaseInv, PreInit, Procs, Goto, ipc, history, FillBlock
<1>6. ClaimInv'
  BY ShmAssumption, <1>0, <1>a
  DEF IndInv, TypeOK, ClaimInv, Procs, Offsets, Goto, ipc, history, FillBlock
<1>7. FillInv'
  <2>1. semval = 0 /\ \A d \in Consumers : pc[d] \notin Critical
    BY ShmAssumption, <1>0, OnlyOneInside DEF FillBlock, Critical, Procs
  <2>. QED
    BY ShmAssumption, <1>0, <1>a, <2>1
    DEF IndInv, TypeOK, LabelInv, FillInv, PhaseInv, HeaderInv, PreInit, Procs, Critical, Goto,
        ipc, history, FillBlock, Zero, BLOCK_SIZE
<1>8. WalkInv'
  BY ShmAssumption, <1>0, <1>a
  DEF IndInv, TypeOK, WalkInv, PhaseInv, HeaderInv, PreInit, Procs, Goto, ipc, history,
      FillBlock
<1>9. ConsumerInv'
  BY ShmAssumption, <1>0, <1>a
  DEF IndInv, TypeOK, ConsumerInv, PhaseInv, AllDone, Drained, Procs, Goto, ipc, history,
      FillBlock
<1>. QED
  BY <1>1, <1>2, <1>3, <1>4, <1>5, <1>6, <1>7, <1>8, <1>9 DEF IndInv

\* The producer stops writing.
LEMMA NoRoomPreserves ==
  ASSUME IndInv, NoRoom
  PROVE  IndInv'
<1>0. Producer \in Procs
  BY DEF Procs
<1>1. TypeOK'
  BY ShmAssumption, <1>0
  DEF IndInv, TypeOK, Pcs, Procs, Offsets, Goto, locals, ipc, memory, history, NoRoom
<1>2. LockInv'
  BY LockStay, <1>0 DEF IndInv, TypeOK, Early, Critical, NoRoom, Goto, locals, ipc
<1>3. LabelInv' /\ PhaseInv'
  BY ShmAssumption, <1>0
  DEF IndInv, TypeOK, LabelInv, Procs, Goto, locals, ipc, memory, history, NoRoom, PhaseInv,
      PreInit, PostFinish, AllDone, Drained
<1>4. HeaderInv' /\ ListInv' /\ ClaimInv'
  BY ShmAssumption, <1>0
  DEF IndInv, TypeOK, HeaderInv, PhaseInv, PreInit, Procs, Offsets, BLOCK_SIZE, HEADER_SIZE,
      BLOCK_HEADER_SIZE, Goto, locals, ipc, memory, history, NoRoom, ListInv, ClaimInv
<1>5. FillInv'
  BY ShmAssumption, <1>0
  DEF IndInv, TypeOK, LabelInv, FillInv, PhaseInv, HeaderInv, PreInit, Procs, Critical, Goto,
      locals, ipc, memory, history, NoRoom
<1>6. WalkInv' /\ ConsumerInv'
  BY ShmAssumption, <1>0
  DEF IndInv, TypeOK, WalkInv, PhaseInv, HeaderInv, PreInit, Procs, Goto, locals, ipc, memory,
      history, NoRoom, ConsumerInv, AllDone, Drained
<1>. QED
  BY <1>1, <1>2, <1>3, <1>4, <1>5, <1>6 DEF IndInv

\* The filled block becomes the last of the list.
LEMMA LinkBlockPreserves ==
  ASSUME IndInv, LinkBlock
  PROVE  IndInv'
<1>0. Producer \in Procs
  BY DEF Procs
<1>a. /\ free_offset \in Offsets /\ free_offset # 0 /\ count \in 1..MAX_NUMBERS
      /\ free_offset + BLOCK_SIZE(count) \in Offsets
      /\ \A b \in written : b < free_offset
  <2>1. pc[Producer] = "p_link"
    BY DEF LinkBlock
  <2>2. free_offset >= HEADER_SIZE /\ free_offset \in Nat
    BY <2>1, NumberTypes DEF IndInv, HeaderInv, PreInit
  <2>3. count >= 1 /\ free_offset + BLOCK_SIZE(count) <= SHM_SIZE
    BY <2>1 DEF IndInv, FillInv
  <2>4. free_offset \in Offsets /\ count \in 0..MAX_NUMBERS
    BY DEF IndInv, TypeOK
  <2>. QED
    BY ShmAssumption, <2>2, <2>3, <2>4, FreeIsBeyond
    DEF Offsets, HEADER_SIZE, BLOCK_SIZE, BLOCK_HEADER_SIZE
<1>b. /\ pc' = [pc EXCEPT ![Producer] = "p_signal"] /\ pc[Producer] = "p_link"
      /\ written' = written \union {free_offset}
      /\ size'[free_offset] = count
      /\ \A b \in written : size'[b] = size[b]
      /\ free_offset' = free_offset + BLOCK_SIZE(count)
      /\ last_block_offset' = free_offset
  <2>1. \A b \in written : b \in Offsets /\ b # free_offset
    BY <1>a, NumberTypes DEF IndInv
  <2>2. size \in [Offsets -> 0..MAX_NUMBERS] /\ size' = [size EXCEPT ![free_offset] = count]
    BY DEF IndInv, TypeOK, LinkBlock
  <2>. QED
    BY <1>a, <2>1, <2>2 DEF LinkBlock, Goto
<1>c. (last_block_offset = 0) <=> (written = {})
  BY <1>a, NumberTypes DEF IndInv, HeaderInv, ListInv, HEADER_SIZE
<1>d. /\ block'[free_offset] = [count |-> count, next |-> 0]
      /\ \A b \in written : block'[b].count = block[b].count
      /\ \A b \in written : b # last_block_offset => block'[b].next = block[b].next
      /\ written # {} => block'[last_block_offset].next = free_offset
  <2>1. block[free_offset] = [count |-> count, next |-> 0]
    BY DEF IndInv, FillInv, LinkBlock
  <2>2. \A b \in written : b # free_offset
    BY <1>a, NumberTypes DEF IndInv
  <2>3. CASE written = {}
    BY <1>c, <2>1, <2>3 DEF LinkBlock
  <2>4. CASE written # {}
    <3>1. last_block_offset \in written /\ last_block_offset \in Offsets
      BY <2>4 DEF IndInv, TypeOK, HeaderInv
    <3>2. block' = [block EXCEPT ![last_block_offset].next = free_offset]
      BY <1>c, <2>4 DEF LinkBlock
    <3>. QED
      BY <2>1, <2>2, <3>1, <3>2 DEF IndInv, TypeOK
  <2>. QED BY <2>3, <2>4
<1>e. \A q \in Procs \ {Producer} : pc[q] \notin Critical /\ pc'[q] = pc[q]
  BY <1>0, <1>b, OnlyOneInside DEF Critical, IndInv, TypeOK
<1>f. pc'[Producer] = "p_signal"
  BY <1>0, <1>b DEF IndInv, TypeOK
<1>1. TypeOK'
  <2>2. block' \in [Offsets -> [count : 0..MAX_NUMBERS, next : Offsets]]
    BY <1>a DEF IndInv, TypeOK, LinkBlock
  <2>3. size' \in [Offsets -> 0..MAX_NUMBERS]
    BY <1>a DEF IndInv, TypeOK, LinkBlock
  <2>4. pc' \in [Procs -> Pcs]
    BY <1>0 DEF IndInv, TypeOK, Pcs, Goto, LinkBlock
  <2>. QED
    BY <1>a, <2>2, <2>3, <2>4 DEF IndInv, TypeOK, ipc, LinkBlock
<1>2. LockInv'
  BY LockStay, <1>0 DEF IndInv, TypeOK, Early, Critical, LinkBlock, Goto, ipc
<1>3. LabelInv' /\ PhaseInv'
  BY ShmAssumption, <1>0
  DEF IndInv, TypeOK, LabelInv, Procs, Goto, ipc, LinkBlock, PhaseInv, PreInit, PostFinish,
      AllDone, Drained
<1>4. HeaderInv'
  <2>1. first_block_offset' = HEADER_SIZE /\ HEADER_SIZE \in written'
    BY <1>a, <1>b, <1>c DEF IndInv, HeaderInv, PreInit, LinkBlock
  <2>2. free_offset' >= HEADER_SIZE
    BY <1>a, <1>b, NumberTypes
    DEF IndInv, HeaderInv, PreInit, BLOCK_SIZE, BLOCK_HEADER_SIZE, HEADER_SIZE
  <2>. QED
    BY <1>b, <2>1, <2>2 DEF HeaderInv
<1>5. ListInv'
  <2>1. \A b \in written : /\ HEADER_SIZE <= b /\ size[b] >= 1
                          /\ b + BLOCK_SIZE(size[b]) <= free_offset
                          /\ b \in Nat /\ size[b] \in Nat
    BY NumberTypes DEF IndInv, ListInv
  <2>2. /\ HEADER_SIZE <= free_offset /\ free_offset \in Nat /\ count \in Nat /\ count >= 1
        /\ free_offset <= free_offset + BLOCK_SIZE(count)
        /\ free_offset + BLOCK_SIZE(count) \in Nat
    BY <1>a, <1>b, NumberTypes DEF IndInv, HeaderInv, PreInit, BLOCK_SIZE, BLOCK_HEADER_SIZE
  <2>3. \A b \in written' : /\ HEADER_SIZE <= b /\ size'[b] >= 1
                           /\ b + BLOCK_SIZE(size'[b]) <= free_offset'
    BY <1>b, <2>1, <2>2 DEF BLOCK_SIZE, BLOCK_HEADER_SIZE
  <2>4. \A b \in written' : block'[b].count \in {0, size'[b]}
    BY <1>b, <1>d DEF IndInv, ListInv
  <2>5. \A b \in written' : b = last_block_offset' => block'[b].next = 0
    BY <1>b, <1>d
  <2>6. ASSUME NEW b \in written', b # last_block_offset'
        PROVE  block'[b].next \in written' /\ block'[b].next = b + BLOCK_SIZE(size'[b])
    <3>1. b \in written /\ size'[b] = size[b]
      BY <1>b, <2>6
    <3>2. CASE b = last_block_offset
      BY <1>b, <1>d, <3>1, <3>2 DEF IndInv, HeaderInv
    <3>3. CASE b # last_block_offset
      BY <1>b, <1>d, <3>1, <3>3 DEF IndInv, ListInv
    <3>. QED BY <3>2, <3>3
  <2>7. \A a, b \in written' : a < b => a + BLOCK_SIZE(size'[a]) <= b
    <3>1. \A a, b \in written : a < b => a + BLOCK_SIZE(size[a]) <= b
      BY DEF IndInv, ListInv
    <3>. QED
      BY <1>a, <1>b, <2>1, <2>2, <3>1
  <2>. QED
    BY <2>3, <2>4, <2>5, <2>6, <2>7 DEF ListInv
<1>6. ClaimInv'
  <2>1. free_offset \notin written /\ \A o \in Offsets : o # free_offset => (o \in written' <=> o \in written)
    BY <1>a, <1>b, NumberTypes DEF IndInv
  <2>2. claims' = claims /\ claims[free_offset] = 0 /\ block'[free_offset].count # 0
    BY <1>a, <1>d, <2>1 DEF IndInv, ClaimInv, LinkBlock
  <2>. QED
    BY <1>d, <2>1, <2>2 DEF IndInv, ClaimInv
<1>7. FillInv'
  BY ShmAssumption, <1>0
  DEF IndInv, TypeOK, LabelInv, FillInv, PhaseInv, HeaderInv, PreInit, Procs, Critical, Goto,
      ipc, LinkBlock
<1>8. WalkInv'
  BY <1>e, <1>f DEF WalkInv, Procs, Critical
<1>9. ConsumerInv'
  <2>1. \A c \in Consumers : /\ pc'[c] = pc[c] /\ off'[c] = off[c] /\ nums'[c] = nums[c]
                            /\ pc[c] \notin {"c_copy", "c_claim", "c_signal_claim", "c_signal_end"}
    BY ShmAssumption, <1>e DEF Critical, Procs, LinkBlock
  <2>2. producer_finished = 0
    BY <1>b DEF IndInv, TypeOK, PhaseInv, PostFinish
  <2>. QED
    BY <1>b, <2>1, <2>2 DEF IndInv, ConsumerInv, LinkBlock, ipc
<1>. QED
  BY <1>1, <1>2, <1>3, <1>4, <1>5, <1>6, <1>7, <1>8, <1>9 DEF IndInv

\* The producer leaves with a sound list.
LEMMA LeaveProducePreserves ==
  ASSUME IndInv, LeaveProduce
  PROVE  IndInv'
<1>0. Producer \in Procs
  BY DEF Procs
<1>1. TypeOK'
  <2>1. semval = 0 /\ semval' = 1
    <3>1. pc[Producer] \in Critical
      BY DEF LeaveProduce, sem_signal, Critical
    <3>2. semval = 0
      BY <1>0, <3>1, OnlyOneInside
    <3>. QED BY <3>2 DEF LeaveProduce, sem_signal
  <2>. QED
    BY <1>0, <2>1
    DEF IndInv, TypeOK, Pcs, Procs, Offsets, Goto, locals, memory, history, sem_signal,
        LeaveProduce
<1>2. LockInv'
  BY LockLeave, <1>0 DEF IndInv, TypeOK, Early, Critical, LeaveProduce, sem_signal, Goto, Leave
<1>3. LabelInv' /\ PhaseInv'
  BY ShmAssumption, <1>0
  DEF IndInv, TypeOK, LabelInv, Procs, Goto, locals, memory, history, sem_signal, LeaveProduce,
      PhaseInv, PreInit, PostFinish, AllDone, Drained
<1>4. HeaderInv' /\ ListInv' /\ ClaimInv'
  BY ShmAssumption, <1>0
  DEF IndInv, TypeOK, HeaderInv, PhaseInv, PreInit, Procs, Offsets, BLOCK_SIZE, HEADER_SIZE,
      BLOCK_HEADER_SIZE, Goto, locals, memory, history, sem_signal, LeaveProduce, ListInv, ClaimInv
<1>5. FillInv'
  BY ShmAssumption, <1>0
  DEF IndInv, TypeOK, LabelInv, FillInv, PhaseInv, HeaderInv, PreInit, Procs, Critical, Goto,
      locals, memory, history, sem_signal, LeaveProduce
<1>6. WalkInv' /\ ConsumerInv'
  BY ShmAssumption, <1>0
  DEF IndInv, TypeOK, WalkInv, PhaseInv, HeaderInv, PreInit, Procs, Goto, locals, memory,
      history, sem_signal, LeaveProduce, ConsumerInv, AllDone, Drained
<1>. QED
  BY <1>1, <1>2, <1>3, <1>4, <1>5, <1>6 DEF IndInv

\* The producer enters to set producer_finished.
LEMMA EnterFinishPreserves ==
  ASSUME IndInv, EnterFinish
  PROVE  IndInv'
<1>0. Producer \in Procs
  BY DEF Procs
<1>1. TypeOK'
  <2>1. semval = 1 /\ semval' = 0
    BY DEF IndInv, TypeOK, EnterFinish, sem_wait
  <2>. QED
    BY <1>0, <2>1
    DEF IndInv, TypeOK, Pcs, Procs, Offsets, Goto, locals, memory, history, sem_wait,
        EnterFinish
<1>2. LockInv'
  <2>1. semval = 1 /\ semval' = 0
    BY DEF IndInv, TypeOK, EnterFinish, sem_wait
  <2>. QED
    BY <1>0, <2>1, LockEnter DEF IndInv, TypeOK, Early, EnterFinish, sem_wait, Goto
<1>3. LabelInv' /\ PhaseInv'
  BY ShmAssumption, <1>0
  DEF IndInv, TypeOK, LabelInv, Procs, Goto, locals, memory, history, sem_wait, EnterFinish,
      PhaseInv, PreInit, PostFinish, AllDone, Drained
<1>4. HeaderInv' /\ ListInv' /\ ClaimInv'
  BY ShmAssumption, <1>0
  DEF IndInv, TypeOK, HeaderInv, PhaseInv, PreInit, Procs, Offsets, BLOCK_SIZE, HEADER_SIZE,
      BLOCK_HEADER_SIZE, Goto, locals, memory, history, sem_wait, EnterFinish, ListInv, ClaimInv
<1>5. FillInv'
  BY ShmAssumption, <1>0
  DEF IndInv, TypeOK, LabelInv, FillInv, PhaseInv, HeaderInv, PreInit, Procs, Critical, Goto,
      locals, memory, history, sem_wait, EnterFinish
<1>6. WalkInv' /\ ConsumerInv'
  BY ShmAssumption, <1>0
  DEF IndInv, TypeOK, WalkInv, PhaseInv, HeaderInv, PreInit, Procs, Goto, locals, memory,
      history, sem_wait, EnterFinish, ConsumerInv, AllDone, Drained
<1>. QED
  BY <1>1, <1>2, <1>3, <1>4, <1>5, <1>6 DEF IndInv

\* producer_finished is set; nothing is linked after it.
LEMMA SetFinishedPreserves ==
  ASSUME IndInv, SetFinished
  PROVE  IndInv'
<1>0. Producer \in Procs
  BY DEF Procs
<1>1. TypeOK'
  BY ShmAssumption, <1>0
  DEF IndInv, TypeOK, Pcs, Procs, Offsets, Goto, locals, ipc, history, SetFinished
<1>2. LockInv'
  BY LockStay, <1>0 DEF IndInv, TypeOK, Early, Critical, SetFinished, Goto, locals, ipc
<1>3. LabelInv' /\ PhaseInv'
  BY ShmAssumption, <1>0
  DEF IndInv, TypeOK, LabelInv, Procs, Goto, locals, ipc, history, SetFinished, PhaseInv,
      PreInit, PostFinish, AllDone, Drained
<1>4. HeaderInv' /\ ListInv' /\ ClaimInv'
  BY ShmAssumption, <1>0
  DEF IndInv, TypeOK, HeaderInv, PhaseInv, PreInit, Procs, Offsets, BLOCK_SIZE, HEADER_SIZE,
      BLOCK_HEADER_SIZE, Goto, locals, ipc, history, SetFinished, ListInv, ClaimInv
<1>5. FillInv'
  BY ShmAssumption, <1>0
  DEF IndInv, TypeOK, LabelInv, FillInv, PhaseInv, HeaderInv, PreInit, Procs, Critical, Goto,
      locals, ipc, history, SetFinished
<1>6. WalkInv' /\ ConsumerInv'
  BY ShmAssumption, <1>0
  DEF IndInv, TypeOK, WalkInv, PhaseInv, HeaderInv, PreInit, Procs, Goto, locals, ipc, history,
      SetFinished, ConsumerInv, AllDone, Drained
<1>. QED
  BY <1>1, <1>2, <1>3, <1>4, <1>5, <1>6 DEF IndInv

\* The producer leaves after setting producer_finished.
LEMMA LeaveFinishPreserves ==
  ASSUME IndInv, LeaveFinish
  PROVE  IndInv'
<1>0. Producer \in Procs
  BY DEF Procs
<1>1. TypeOK'
  <2>1. semval = 0 /\ semval' = 1
    <3>1. pc[Producer] \in Critical
      BY DEF LeaveFinish, sem_signal, Critical
    <3>2. semval = 0
      BY <1>0, <3>1, OnlyOneInside
    <3>. QED BY <3>2 DEF LeaveFinish, sem_signal
  <2>. QED
    BY <1>0, <2>1
    DEF IndInv, TypeOK, Pcs, Procs, Offsets, Goto, locals, memory, history, sem_signal,
        LeaveFinish
<1>2. LockInv'
  BY LockLeave, <1>0 DEF IndInv, TypeOK, Early, Critical, LeaveFinish, sem_signal, Goto, Leave
<1>3. LabelInv' /\ PhaseInv'
  BY ShmAssumption, <1>0
  DEF IndInv, TypeOK, LabelInv, Procs, Goto, locals, memory, history, sem_signal, LeaveFinish,
      PhaseInv, PreInit, PostFinish, AllDone, Drained
<1>4. HeaderInv' /\ ListInv' /\ ClaimInv'
  BY ShmAssumption, <1>0
  DEF IndInv, TypeOK, HeaderInv, PhaseInv, PreInit, Procs, Offsets, BLOCK_SIZE, HEADER_SIZE,
      BLOCK_HEADER_SIZE, Goto, locals, memory, history, sem_signal, LeaveFinish, ListInv, ClaimInv
<1>5. FillInv'
  BY ShmAssumption, <1>0
  DEF IndInv, TypeOK, LabelInv, FillInv, PhaseInv, HeaderInv, PreInit, Procs, Critical, Goto,
      locals, memory, history, sem_signal, LeaveFinish
<1>6. WalkInv' /\ ConsumerInv'
  BY ShmAssumption, <1>0
  DEF IndInv, TypeOK, WalkInv, PhaseInv, HeaderInv, PreInit, Procs, Goto, locals, memory,
      history, sem_signal, LeaveFinish, ConsumerInv, AllDone, Drained
<1>. QED
  BY <1>1, <1>2, <1>3, <1>4, <1>5, <1>6 DEF IndInv

\* The producer starts a walk at the head of the list.
LEMMA EnterPollPreserves ==
  ASSUME IndInv, EnterPoll
  PROVE  IndInv'
<1>0. Producer \in Procs
  BY DEF Procs
<1>1. TypeOK'
  <2>1. semval = 1 /\ semval' = 0
    BY DEF IndInv, TypeOK, EnterPoll, sem_wait
  <2>. QED
    BY <1>0, <2>1
    DEF IndInv, TypeOK, Pcs, Procs, Offsets, Goto, memory, history, sem_wait, EnterPoll
<1>2. LockInv'
  <2>1. semval = 1 /\ semval' = 0
    BY DEF IndInv, TypeOK, EnterPoll, sem_wait
  <2>. QED
    BY <1>0, <2>1, LockEnter DEF IndInv, TypeOK, Early, EnterPoll, sem_wait, Goto
<1>3. LabelInv' /\ PhaseInv'
  BY ShmAssumption, <1>0
  DEF IndInv, TypeOK, LabelInv, Procs, Goto, memory, history, sem_wait, EnterPoll, PhaseInv,
      PreInit, PostFinish, AllDone, Drained
<1>4. HeaderInv' /\ ListInv' /\ ClaimInv'
  BY ShmAssumption, <1>0
  DEF IndInv, TypeOK, HeaderInv, PhaseInv, PreInit, Procs, Offsets, BLOCK_SIZE, HEADER_SIZE,
      BLOCK_HEADER_SIZE, Goto, memory, history, sem_wait, EnterPoll, ListInv, ClaimInv
<1>5. FillInv'
  BY ShmAssumption, <1>0
  DEF IndInv, TypeOK, LabelInv, FillInv, PhaseInv, HeaderInv, PreInit, Procs, Critical, Goto,
      memory, history, sem_wait, EnterPoll
<1>6. ConsumerInv'
  BY ShmAssumption, <1>0
  DEF IndInv, TypeOK, ConsumerInv, PhaseInv, AllDone, Drained, Procs, Goto, memory, history,
      sem_wait, EnterPoll
<1>7. WalkInv'
  BY ShmAssumption, <1>0, WalkStart
  DEF IndInv, TypeOK, WalkInv, PhaseInv, HeaderInv, PreInit, Procs, Goto, memory, history,
      sem_wait, EnterPoll
<1>. QED
  BY <1>1, <1>2, <1>3, <1>4, <1>5, <1>6, <1>7 DEF IndInv

\* One step of the walk; its end means that the list is drained.
LEMMA PollBlockPreserves ==
  ASSUME IndInv, PollBlock
  PROVE  IndInv'
<1>0. Producer \in Procs
  BY DEF Procs
<1>1. TypeOK'
  BY <1>0 DEF IndInv, TypeOK, Pcs, Procs, Offsets, Goto, ipc, memory, history, PollBlock
<1>2. LockInv'
  BY LockStay, <1>0 DEF IndInv, TypeOK, Early, Critical, PollBlock, Goto, ipc
<1>3. LabelInv'
  BY ShmAssumption, <1>0
  DEF IndInv, TypeOK, LabelInv, Procs, Goto, ipc, memory, history, PollBlock
<1>4. PhaseInv'
  BY <1>0
  DEF IndInv, TypeOK, PhaseInv, PreInit, PostFinish, AllDone, Drained, Procs, Goto, ipc, memory,
      history, PollBlock, WalkInv
<1>5. HeaderInv' /\ ListInv' /\ ClaimInv'
  BY ShmAssumption, <1>0
  DEF IndInv, TypeOK, HeaderInv, PhaseInv, PreInit, Procs, Offsets, BLOCK_SIZE, HEADER_SIZE,
      BLOCK_HEADER_SIZE, Goto, ipc, memory, history, PollBlock, ListInv, ClaimInv
<1>6. FillInv'
  BY ShmAssumption, <1>0
  DEF IndInv, TypeOK, LabelInv, FillInv, PhaseInv, HeaderInv, PreInit, Procs, Critical, Goto,
      ipc, memory, history, PollBlock
<1>7. WalkInv'
  <2>1. CASE off'[Producer] = block[off[Producer]].next /\ off[Producer] # 0 /\ block[off[Producer]].count = 0
    BY <1>0, <2>1, WalkStep
    DEF IndInv, TypeOK, WalkInv, PhaseInv, HeaderInv, PreInit, Procs, Goto, ipc, memory,
        history, PollBlock
  <2>2. CASE pc'[Producer] \notin {"c_scan", "p_poll"} /\ off' = off
    BY <1>0, <2>2
    DEF IndInv, TypeOK, WalkInv, PhaseInv, HeaderInv, PreInit, Procs, Goto, ipc, memory,
        history, PollBlock
  <2>. QED
    BY <1>0, <2>1, <2>2 DEF IndInv, TypeOK, PollBlock, Goto, Offsets
<1>8. ConsumerInv'
  <2>1. \A c \in Consumers : pc[c] # "c_signal_claim"
    BY ShmAssumption, <1>0, OnlyOneInside DEF PollBlock, Critical, Procs
  <2>. QED
    BY ShmAssumption, <1>0, <2>1
    DEF IndInv, TypeOK, ConsumerInv, PhaseInv, AllDone, Drained, Procs, Goto, ipc, memory,
        history, PollBlock
<1>. QED
  BY <1>1, <1>2, <1>3, <1>4, <1>5, <1>6, <1>7, <1>8 DEF IndInv

\* The producer leaves its walk.
LEMMA LeavePollPreserves ==
  ASSUME IndInv, LeavePoll
  PROVE  IndInv'
<1>0. Producer \in Procs
  BY DEF Procs
<1>1. TypeOK'
  <2>1. semval = 0 /\ semval' = 1
    <3>1. pc[Producer] \in Critical
      BY DEF LeavePoll, sem_signal, Critical
    <3>2. semval = 0
      BY <1>0, <3>1, OnlyOneInside
    <3>. QED BY <3>2 DEF LeavePoll, sem_signal
  <2>. QED
    BY <1>0, <2>1
    DEF IndInv, TypeOK, Pcs, Procs, Offsets, Goto, locals, memory, history, sem_signal,
        LeavePoll
<1>2. LockInv'
  BY LockLeave, <1>0 DEF IndInv, TypeOK, Early, Critical, LeavePoll, sem_signal, Goto, Leave
<1>3. LabelInv' /\ PhaseInv'
  BY ShmAssumption, <1>0
  DEF IndInv, TypeOK, LabelInv, Procs, Goto, locals, memory, history, sem_signal, LeavePoll,
      PhaseInv, PreInit, PostFinish, AllDone, Drained
<1>4. HeaderInv' /\ ListInv' /\ ClaimInv'
  BY ShmAssumption, <1>0
  DEF IndInv, TypeOK, HeaderInv, PhaseInv, PreInit, Procs, Offsets, BLOCK_SIZE, HEADER_SIZE,
      BLOCK_HEADER_SIZE, Goto, locals, memory, history, sem_signal, LeavePoll, ListInv, ClaimInv
<1>5. FillInv'
  BY ShmAssumption, <1>0
  DEF IndInv, TypeOK, LabelInv, FillInv, PhaseInv, HeaderInv, PreInit, Procs, Critical, Goto,
      locals, memory, history, sem_signal, LeavePoll
<1>6. WalkInv' /\ ConsumerInv'
  BY ShmAssumption, <1>0
  DEF IndInv, TypeOK, WalkInv, PhaseInv, HeaderInv, PreInit, Procs, Goto, locals, memory,
      history, sem_signal, LeavePoll, ConsumerInv, AllDone, Drained
<1>. QED
  BY <1>1, <1>2, <1>3, <1>4, <1>5, <1>6 DEF IndInv

\* The segment is removed: the list is drained.
LEMMA RemoveShmPreserves ==
  ASSUME IndInv, RemoveShm
  PROVE  IndInv'
<1>0. Producer \in Procs
  BY DEF Procs
<1>1. TypeOK'
  BY ShmAssumption, <1>0
  DEF IndInv, TypeOK, Pcs, Procs, Offsets, Goto, Leave, locals, memory, history, RemoveShm
<1>2. LockInv'
  BY LockStay, <1>0 DEF IndInv, TypeOK, Early, Critical, RemoveShm, Goto, Leave, locals
<1>3. LabelInv' /\ PhaseInv'
  BY ShmAssumption, <1>0
  DEF IndInv, TypeOK, LabelInv, Procs, Goto, Leave, locals, memory, history, RemoveShm,
      PhaseInv, PreInit, PostFinish, AllDone, Drained
<1>4. HeaderInv' /\ ListInv' /\ ClaimInv'
  BY ShmAssumption, <1>0
  DEF IndInv, TypeOK, HeaderInv, PhaseInv, PreInit, Procs, Offsets, BLOCK_SIZE, HEADER_SIZE,
      BLOCK_HEADER_SIZE, Goto, Leave, locals, memory, history, RemoveShm, ListInv, ClaimInv
<1>5. FillInv'
  BY ShmAssumption, <1>0
  DEF IndInv, TypeOK, LabelInv, FillInv, PhaseInv, HeaderInv, PreInit, Procs, Critical, Goto,
      Leave, locals, memory, history, RemoveShm
<1>6. WalkInv' /\ ConsumerInv'
  BY ShmAssumption, <1>0
  DEF IndInv, TypeOK, WalkInv, PhaseInv, HeaderInv, PreInit, Procs, Goto, Leave, locals, memory,
      history, RemoveShm, ConsumerInv, AllDone, Drained
<1>. QED
  BY <1>1, <1>2, <1>3, <1>4, <1>5, <1>6 DEF IndInv

\* The semaphore is removed: no consumer holds an unreported claim inside.
LEMMA RemoveSemPreserves ==
  ASSUME IndInv, RemoveSem
  PROVE  IndInv'
<1>0. Producer \in Procs
  BY DEF Procs
<1>1. TypeOK'
  BY ShmAssumption, <1>0
  DEF IndInv, TypeOK, Pcs, Procs, Offsets, Goto, locals, memory, history, RemoveSem
<1>2. LockInv'
  BY LockStay, <1>0 DEF IndInv, TypeOK, Early, Critical, RemoveSem, Goto, locals
<1>3. LabelInv' /\ PhaseInv'
  BY ShmAssumption, <1>0
  DEF IndInv, TypeOK, LabelInv, Procs, Goto, locals, memory, history, RemoveSem, PhaseInv,
      PreInit, PostFinish, AllDone, Drained
<1>4. HeaderInv' /\ ListInv' /\ ClaimInv'
  BY ShmAssumption, <1>0
  DEF IndInv, TypeOK, HeaderInv, PhaseInv, PreInit, Procs, Offsets, BLOCK_SIZE, HEADER_SIZE,
      BLOCK_HEADER_SIZE, Goto, locals, memory, history, RemoveSem, ListInv, ClaimInv
<1>5. FillInv'
  BY ShmAssumption, <1>0
  DEF IndInv, TypeOK, LabelInv, FillInv, PhaseInv, HeaderInv, PreInit, Procs, Critical, Goto,
      locals, memory, history, RemoveSem
<1>6. WalkInv' /\ ConsumerInv'
  BY ShmAssumption, <1>0
  DEF IndInv, TypeOK, WalkInv, PhaseInv, HeaderInv, PreInit, Procs, Goto, locals, memory,
      history, RemoveSem, ConsumerInv, AllDone, Drained
<1>. QED
  BY <1>1, <1>2, <1>3, <1>4, <1>5, <1>6 DEF IndInv

\* shmget of a consumer.
LEMMA FindShmPreserves ==
  ASSUME NEW c \in Consumers, IndInv, FindShm(c)
  PROVE  IndInv'
<1>0. c \in Procs
  BY DEF Procs
<1>1. TypeOK'
  BY ShmAssumption, <1>0
  DEF IndInv, TypeOK, Pcs, Procs, Offsets, Goto, locals, ipc, memory, history, FindShm
<1>2. LockInv'
  BY LockStay, <1>0 DEF IndInv, TypeOK, Early, Critical, FindShm, Goto, locals, ipc
<1>3. LabelInv' /\ PhaseInv'
  BY ShmAssumption, <1>0
  DEF IndInv, TypeOK, LabelInv, Procs, Goto, locals, ipc, memory, history, FindShm, PhaseInv,
      PreInit, PostFinish, AllDone, Drained
<1>4. HeaderInv' /\ ListInv' /\ ClaimInv'
  BY ShmAssumption, <1>0
  DEF IndInv, TypeOK, HeaderInv, PhaseInv, PreInit, Procs, Offsets, BLOCK_SIZE, HEADER_SIZE,
      BLOCK_HEADER_SIZE, Goto, locals, ipc, memory, history, FindShm, ListInv, ClaimInv
<1>5. FillInv'
  BY ShmAssumption, <1>0
  DEF IndInv, TypeOK, LabelInv, FillInv, PhaseInv, HeaderInv, PreInit, Procs, Critical, Goto,
      locals, ipc, memory, history, FindShm
<1>6. WalkInv' /\ ConsumerInv'
  BY ShmAssumption, <1>0
  DEF IndInv, TypeOK, WalkInv, PhaseInv, HeaderInv, PreInit, Procs, Goto, locals, ipc, memory,
      history, FindShm, ConsumerInv, AllDone, Drained
<1>. QED
  BY <1>1, <1>2, <1>3, <1>4, <1>5, <1>6 DEF IndInv

\* semget of a consumer.
LEMMA FindSemPreserves ==
  ASSUME NEW c \in Consumers, IndInv, FindSem(c)
  PROVE  IndInv'
<1>0. c \in Procs
  BY DEF Procs
<1>1. TypeOK'
  BY ShmAssumption, <1>0
  DEF IndInv, TypeOK, Pcs, Procs, Offsets, Goto, locals, ipc, memory, history, FindSem
<1>2. LockInv'
  BY LockStay, <1>0 DEF IndInv, TypeOK, Early, Critical, FindSem, Goto, locals, ipc
<1>3. LabelInv' /\ PhaseInv'
  BY ShmAssumption, <1>0
  DEF IndInv, TypeOK, LabelInv, Procs, Goto, locals, ipc, memory, history, FindSem, PhaseInv,
      PreInit, PostFinish, AllDone, Drained
<1>4. HeaderInv' /\ ListInv' /\ ClaimInv'
  BY ShmAssumption, <1>0
  DEF IndInv, TypeOK, HeaderInv, PhaseInv, PreInit, Procs, Offsets, BLOCK_SIZE, HEADER_SIZE,
      BLOCK_HEADER_SIZE, Goto, locals, ipc, memory, history, FindSem, ListInv, ClaimInv
<1>5. FillInv'
  BY ShmAssumption, <1>0
  DEF IndInv, TypeOK, LabelInv, FillInv, PhaseInv, HeaderInv, PreInit, Procs, Critical, Goto,
      locals, ipc, memory, history, FindSem
<1>6. WalkInv' /\ ConsumerInv'
  BY ShmAssumption, <1>0
  DEF IndInv, TypeOK, WalkInv, PhaseInv, HeaderInv, PreInit, Procs, Goto, locals, ipc, memory,
      history, FindSem, ConsumerInv, AllDone, Drained
<1>. QED
  BY <1>1, <1>2, <1>3, <1>4, <1>5, <1>6 DEF IndInv

\* shmat of a consumer.
LEMMA AttachConsumerPreserves ==
  ASSUME NEW c \in Consumers, IndInv, AttachConsumer(c)
  PROVE  IndInv'
<1>0. c \in Procs
  BY DEF Procs
<1>1. TypeOK'
  BY ShmAssumption, <1>0
  DEF IndInv, TypeOK, Pcs, Procs, Offsets, Goto, locals, memory, history, AttachConsumer
<1>2. LockInv'
  BY LockStay, <1>0 DEF IndInv, TypeOK, Early, Critical, AttachConsumer, Goto, locals
<1>3. LabelInv' /\ PhaseInv'
  BY ShmAssumption, <1>0
  DEF IndInv, TypeOK, LabelInv, Procs, Goto, locals, memory, history, AttachConsumer, PhaseInv,
      PreInit, PostFinish, AllDone, Drained
<1>4. HeaderInv' /\ ListInv' /\ ClaimInv'
  BY ShmAssumption, <1>0
  DEF IndInv, TypeOK, HeaderInv, PhaseInv, PreInit, Procs, Offsets, BLOCK_SIZE, HEADER_SIZE,
      BLOCK_HEADER_SIZE, Goto, locals, memory, history, AttachConsumer, ListInv, ClaimInv
<1>5. FillInv'
  BY ShmAssumption, <1>0
  DEF IndInv, TypeOK, LabelInv, FillInv, PhaseInv, HeaderInv, PreInit, Procs, Critical, Goto,
      locals, memory, history, AttachConsumer
<1>6. WalkInv' /\ ConsumerInv'
  BY ShmAssumption, <1>0
  DEF IndInv, TypeOK, WalkInv, PhaseInv, HeaderInv, PreInit, Procs, Goto, locals, memory,
      history, AttachConsumer, ConsumerInv, AllDone, Drained
<1>. QED
  BY <1>1, <1>2, <1>3, <1>4, <1>5, <1>6 DEF IndInv

\* A consumer starts a walk at the head of the list.
LEMMA EnterConsumePreserves ==
  ASSUME NEW c \in Consumers, IndInv, EnterConsume(c)
  PROVE  IndInv'
<1>0. c \in Procs
  BY DEF Procs
<1>1. TypeOK'
  <2>1. semval = 1 /\ semval' = 0
    BY DEF IndInv, TypeOK, EnterConsume, sem_wait
  <2>. QED
    BY <1>0, <2>1
    DEF IndInv, TypeOK, Pcs, Procs, Offsets, Goto, memory, history, sem_wait, EnterConsume
<1>2. LockInv'
  <2>1. semval = 1 /\ semval' = 0
    BY DEF IndInv, TypeOK, EnterConsume, sem_wait
  <2>. QED
    BY <1>0, <2>1, LockEnter DEF IndInv, TypeOK, Early, EnterConsume, sem_wait, Goto
<1>3. LabelInv' /\ PhaseInv'
  BY ShmAssumption, <1>0
  DEF IndInv, TypeOK, LabelInv, Procs, Goto, memory, history, sem_wait, EnterConsume, PhaseInv,
      PreInit, PostFinish, AllDone, Drained
<1>4. HeaderInv' /\ ListInv' /\ ClaimInv'
  BY ShmAssumption, <1>0
  DEF IndInv, TypeOK, HeaderInv, PhaseInv, PreInit, Procs, Offsets, BLOCK_SIZE, HEADER_SIZE,
      BLOCK_HEADER_SIZE, Goto, memory, history, sem_wait, EnterConsume, ListInv, ClaimInv
<1>5. FillInv'
  BY ShmAssumption, <1>0
  DEF IndInv, TypeOK, LabelInv, FillInv, PhaseInv, HeaderInv, PreInit, Procs, Critical, Goto,
      memory, history, sem_wait, EnterConsume
<1>6. ConsumerInv'
  BY ShmAssumption, <1>0
  DEF IndInv, TypeOK, ConsumerInv, PhaseInv, AllDone, Drained, Procs, Goto, memory, history,
      sem_wait, EnterConsume
<1>7. WalkInv'
  BY ShmAssumption, <1>0, WalkStart
  DEF IndInv, TypeOK, WalkInv, PhaseInv, HeaderInv, PreInit, Procs, Goto, memory, history,
      sem_wait, EnterConsume
<1>. QED
  BY <1>1, <1>2, <1>3, <1>4, <1>5, <1>6, <1>7 DEF IndInv

\* A consumer is thrown out after the semaphore was removed.
LEMMA SemopFailsPreserves ==
  ASSUME NEW c \in Consumers, IndInv, SemopFails(c)
  PROVE  IndInv'
<1>0. c \in Procs
  BY DEF Procs
<1>1. TypeOK'
  BY ShmAssumption, <1>0
  DEF IndInv, TypeOK, Pcs, Procs, Offsets, Goto, Leave, locals, memory, history, SemopFails
<1>2. LockInv'
  BY LockStay, <1>0 DEF IndInv, TypeOK, Early, Critical, SemopFails, Goto, Leave, locals
<1>3. LabelInv' /\ PhaseInv'
  BY ShmAssumption, <1>0
  DEF IndInv, TypeOK, LabelInv, Procs, Goto, Leave, locals, memory, history, SemopFails,
      PhaseInv, PreInit, PostFinish, AllDone, Drained
<1>4. HeaderInv' /\ ListInv' /\ ClaimInv'
  BY ShmAssumption, <1>0
  DEF IndInv, TypeOK, HeaderInv, PhaseInv, PreInit, Procs, Offsets, BLOCK_SIZE, HEADER_SIZE,
      BLOCK_HEADER_SIZE, Goto, Leave, locals, memory, history, SemopFails, ListInv, ClaimInv
<1>5. FillInv'
  BY ShmAssumption, <1>0
  DEF IndInv, TypeOK, LabelInv, FillInv, PhaseInv, HeaderInv, PreInit, Procs, Critical, Goto,
      Leave, locals, memory, history, SemopFails
<1>6. WalkInv' /\ ConsumerInv'
  BY ShmAssumption, <1>0
  DEF IndInv, TypeOK, WalkInv, PhaseInv, HeaderInv, PreInit, Procs, Goto, Leave, locals, memory,
      history, SemopFails, ConsumerInv, AllDone, Drained
<1>. QED
  BY <1>1, <1>2, <1>3, <1>4, <1>5, <1>6 DEF IndInv

\* One step of the walk of a consumer.
LEMMA ScanBlockPreserves ==
  ASSUME NEW c \in Consumers, IndInv, ScanBlock(c)
  PROVE  IndInv'
<1>0. c \in Procs
  BY DEF Procs
<1>1. TypeOK'
  BY ShmAssumption, <1>0
  DEF IndInv, TypeOK, Pcs, Procs, Offsets, Goto, ipc, memory, history, ScanBlock
<1>2. LockInv'
  BY LockStay, <1>0 DEF IndInv, TypeOK, Early, Critical, ScanBlock, Goto, ipc
<1>3. LabelInv' /\ PhaseInv'
  BY ShmAssumption, <1>0
  DEF IndInv, TypeOK, LabelInv, Procs, Goto, ipc, memory, history, ScanBlock, PhaseInv, PreInit,
      PostFinish, AllDone, Drained
<1>4. HeaderInv' /\ ListInv' /\ ClaimInv'
  BY ShmAssumption, <1>0
  DEF IndInv, TypeOK, HeaderInv, PhaseInv, PreInit, Procs, Offsets, BLOCK_SIZE, HEADER_SIZE,
      BLOCK_HEADER_SIZE, Goto, ipc, memory, history, ScanBlock, ListInv, ClaimInv
<1>5. FillInv'
  BY ShmAssumption, <1>0
  DEF IndInv, TypeOK, LabelInv, FillInv, PhaseInv, HeaderInv, PreInit, Procs, Critical, Goto,
      ipc, memory, history, ScanBlock
<1>6. WalkInv'
  <2>1. CASE off'[c] = block[off[c]].next /\ off[c] # 0 /\ block[off[c]].count = 0
    <3>1. /\ off'[c] = 0 \/ off'[c] \in written
          /\ \A b \in written : off'[c] = 0 \/ b < off'[c] => block[b].count = 0
      BY <1>0, <2>1, WalkStep DEF ScanBlock
    <3>2. \A q \in Procs \ {c} : off'[q] = off[q] /\ pc'[q] = pc[q]
      BY <1>0 DEF IndInv, TypeOK, ScanBlock, Goto
    <3>. QED
      BY <3>1, <3>2 DEF IndInv, WalkInv, ScanBlock, memory, history
  <2>2. CASE pc'[c] \notin {"c_scan", "p_poll"} /\ off' = off
    BY <1>0, <2>2
    DEF IndInv, TypeOK, WalkInv, PhaseInv, HeaderInv, PreInit, Procs, Goto, ipc, memory,
        history, ScanBlock
  <2>. QED
    BY <1>0, <2>1, <2>2, NumberTypes DEF IndInv, TypeOK, ScanBlock, Goto
<1>7. ConsumerInv'
  <2>1. off[c] # 0 /\ block[off[c]].count > 0 => off[c] \in written
    BY <1>0, FoundIsWritten DEF ScanBlock
  <2>2. off[c] = 0 => Drained
    BY <1>0 DEF IndInv, WalkInv, ScanBlock, Drained
  <2>. QED
    BY ShmAssumption, <1>0, <2>1, <2>2
    DEF IndInv, TypeOK, ConsumerInv, PhaseInv, AllDone, Drained, Procs, Goto, ipc, memory,
        history, ScanBlock
<1>. QED
  BY <1>1, <1>2, <1>3, <1>4, <1>5, <1>6, <1>7 DEF IndInv

\* The copy a consumer takes has the size that was written.
LEMMA CopyNumbersPreserves ==
  ASSUME NEW c \in Consumers, IndInv, CopyNumbers(c)
  PROVE  IndInv'
<1>0. c \in Procs
  BY DEF Procs
<1>1. TypeOK'
  BY ShmAssumption, <1>0
  DEF IndInv, TypeOK, Pcs, Procs, Offsets, Goto, ipc, memory, history, CopyNumbers
<1>2. LockInv'
  BY LockStay, <1>0 DEF IndInv, TypeOK, Early, Critical, CopyNumbers, Goto, ipc
<1>3. LabelInv' /\ PhaseInv'
  BY ShmAssumption, <1>0
  DEF IndInv, TypeOK, LabelInv, Procs, Goto, ipc, memory, history, CopyNumbers, PhaseInv,
      PreInit, PostFinish, AllDone, Drained
<1>4. HeaderInv' /\ ListInv' /\ ClaimInv'
  BY ShmAssumption, <1>0
  DEF IndInv, TypeOK, HeaderInv, PhaseInv, PreInit, Procs, Offsets, BLOCK_SIZE, HEADER_SIZE,
      BLOCK_HEADER_SIZE, Goto, ipc, memory, history, CopyNumbers, ListInv, ClaimInv
<1>5. FillInv'
  BY ShmAssumption, <1>0
  DEF IndInv, TypeOK, LabelInv, FillInv, PhaseInv, HeaderInv, PreInit, Procs, Critical, Goto,
      ipc, memory, history, CopyNumbers
<1>6. WalkInv'
  BY ShmAssumption, <1>0
  DEF IndInv, TypeOK, WalkInv, PhaseInv, HeaderInv, PreInit, Procs, Goto, ipc, memory, history,
      CopyNumbers
<1>7. ConsumerInv'
  <2>1. off[c] \in written /\ block[off[c]].count = size[off[c]]
    BY DEF IndInv, ConsumerInv, ListInv, CopyNumbers
  <2>. QED
    BY <1>0, <2>1
    DEF IndInv, TypeOK, ConsumerInv, PhaseInv, AllDone, Drained, Procs, Goto, ipc, memory,
        history, CopyNumbers
<1>. QED
  BY <1>1, <1>2, <1>3, <1>4, <1>5, <1>6, <1>7 DEF IndInv

\* The claim zeroes one written, unclaimed block.
LEMMA ClaimBlockPreserves ==
  ASSUME NEW c \in Consumers, IndInv, ClaimBlock(c)
  PROVE  IndInv'
<1>0. c \in Procs
  BY DEF Procs
<1>a. off[c] \in written /\ off[c] \in Offsets /\ block[off[c]].count > 0
  BY <1>0 DEF IndInv, TypeOK, ConsumerInv, ClaimBlock
<1>b. /\ block'[off[c]].count = 0 /\ block'[off[c]].next = block[off[c]].next
      /\ \A o \in Offsets \ {off[c]} : block'[o] = block[o]
  BY <1>a DEF IndInv, TypeOK, ClaimBlock
<1>1. TypeOK'
  <2>1. block' \in [Offsets -> [count : 0..MAX_NUMBERS, next : Offsets]]
    BY ShmAssumption, <1>a DEF IndInv, TypeOK, ClaimBlock
  <2>2. claims' \in [Offsets -> Nat]
    BY <1>a DEF IndInv, TypeOK, ClaimBlock
  <2>3. pc' \in [Procs -> Pcs]
    BY <1>0 DEF IndInv, TypeOK, Pcs, Goto, ClaimBlock
  <2>. QED
    BY <2>1, <2>2, <2>3 DEF IndInv, TypeOK, locals, ipc, ClaimBlock
<1>2. LockInv'
  BY LockStay, <1>0 DEF IndInv, TypeOK, Early, Critical, ClaimBlock, Goto, locals, ipc
<1>3. LabelInv' /\ PhaseInv'
  BY ShmAssumption, <1>0
  DEF IndInv, TypeOK, LabelInv, Procs, Goto, locals, ipc, ClaimBlock, PhaseInv, PreInit,
      PostFinish, AllDone, Drained
<1>4. HeaderInv'
  BY ShmAssumption, <1>0
  DEF IndInv, TypeOK, HeaderInv, PhaseInv, PreInit, Procs, Offsets, BLOCK_SIZE, HEADER_SIZE,
      BLOCK_HEADER_SIZE, Goto, locals, ipc, ClaimBlock
<1>5. ListInv'
  <2>1. \A b \in written : block'[b].next = block[b].next /\ block'[b].count \in {0, block[b].count}
    BY <1>a, <1>b DEF IndInv, TypeOK
  <2>. QED
    BY <2>1 DEF IndInv, ListInv, ClaimBlock, locals
<1>6. ClaimInv'
  <2>1. claims[off[c]] = 0 /\ claims'[off[c]] = 1
    BY <1>a DEF IndInv, TypeOK, ClaimInv, ClaimBlock
  <2>2. \A o \in Offsets \ {off[c]} : claims'[o] = claims[o]
    BY <1>a DEF IndInv, TypeOK, ClaimBlock
  <2>. QED
    BY <1>a, <1>b, <2>1, <2>2 DEF IndInv, ClaimInv, ClaimBlock
<1>7. FillInv'
  <2>1. off[c] \in written /\ pc'[Producer] = pc[Producer] /\ pc[Producer] # "p_link"
    BY ShmAssumption, <1>0, OnlyOneInside
    DEF IndInv, TypeOK, ConsumerInv, Critical, Procs, ClaimBlock, Goto
  <2>. QED
    BY <2>1 DEF FillInv, ClaimBlock
<1>8. WalkInv'
  BY ShmAssumption, <1>0
  DEF IndInv, TypeOK, WalkInv, PhaseInv, HeaderInv, PreInit, Procs, Goto, locals, ipc,
      ClaimBlock
<1>9. ConsumerInv'
  <2>1. \A d \in Consumers \ {c} : pc[d] \notin {"c_copy", "c_claim", "c_signal_claim"}
    BY <1>0, OnlyOneInside DEF ClaimBlock, Critical, Procs
  <2>2. pc[Producer] \notin AllDone
    BY <1>a DEF IndInv, PhaseInv, Drained
  <2>3. /\ pc'[c] = "c_signal_claim"
        /\ \A q \in Procs \ {c} : pc'[q] = pc[q]
    BY <1>0 DEF IndInv, TypeOK, ClaimBlock, Goto
  <2>4. Drained => Drained'
    BY <1>a, <1>b DEF Drained, ClaimBlock, IndInv, TypeOK
  <2>. QED
    BY ShmAssumption, <1>a, <2>1, <2>2, <2>3, <2>4
    DEF IndInv, ConsumerInv, ClaimBlock, locals, ipc, Procs
<1>. QED
  BY <1>1, <1>2, <1>3, <1>4, <1>5, <1>6, <1>7, <1>8, <1>9 DEF IndInv

\* A consumer leaves with a claim or without one.
LEMMA LeaveConsumePreserves ==
  ASSUME NEW c \in Consumers, IndInv, LeaveConsume(c)
  PROVE  IndInv'
<1>0. c \in Procs
  BY DEF Procs
<1>1. TypeOK'
  <2>1. semval = 0 /\ semval' = 1
    <3>1. pc[c] \in Critical
      BY DEF LeaveConsume, sem_signal, Critical
    <3>2. semval = 0
      BY <1>0, <3>1, OnlyOneInside
    <3>. QED BY <3>2 DEF LeaveConsume, sem_signal
  <2>. QED
    BY <1>0, <2>1
    DEF IndInv, TypeOK, Pcs, Procs, Offsets, Goto, locals, memory, history, sem_signal,
        LeaveConsume
<1>2. LockInv'
  BY LockLeave, <1>0 DEF IndInv, TypeOK, Early, Critical, LeaveConsume, sem_signal, Goto, Leave
<1>3. LabelInv' /\ PhaseInv'
  BY ShmAssumption, <1>0
  DEF IndInv, TypeOK, LabelInv, Procs, Goto, locals, memory, history, sem_signal, LeaveConsume,
      PhaseInv, PreInit, PostFinish, AllDone, Drained
<1>4. HeaderInv' /\ ListInv' /\ ClaimInv'
  BY ShmAssumption, <1>0
  DEF IndInv, TypeOK, HeaderInv, PhaseInv, PreInit, Procs, Offsets, BLOCK_SIZE, HEADER_SIZE,
      BLOCK_HEADER_SIZE, Goto, locals, memory, history, sem_signal, LeaveConsume, ListInv, ClaimInv
<1>5. FillInv'
  BY ShmAssumption, <1>0
  DEF IndInv, TypeOK, LabelInv, FillInv, PhaseInv, HeaderInv, PreInit, Procs, Critical, Goto,
      locals, memory, history, sem_signal, LeaveConsume
<1>6. WalkInv' /\ ConsumerInv'
  BY ShmAssumption, <1>0
  DEF IndInv, TypeOK, WalkInv, PhaseInv, HeaderInv, PreInit, Procs, Goto, locals, memory,
      history, sem_signal, LeaveConsume, ConsumerInv, AllDone, Drained
<1>. QED
  BY <1>1, <1>2, <1>3, <1>4, <1>5, <1>6 DEF IndInv

\* A consumer prints the set it holds.
LEMMA ReportMinMaxPreserves ==
  ASSUME NEW c \in Consumers, IndInv, ReportMinMax(c)
  PROVE  IndInv'
<1>0. c \in Procs
  BY DEF Procs
<1>1. TypeOK'
  <2>1. pc' \in [Procs -> Pcs] /\ off[c] \in Offsets
    BY <1>0 DEF IndInv, TypeOK, Pcs, ReportMinMax, Goto
  <2>2. nums' \in [Consumers -> 0..MAX_NUMBERS]
    BY ShmAssumption DEF IndInv, TypeOK, ReportMinMax
  <2>. QED
    BY <2>1, <2>2 DEF IndInv, TypeOK, locals, ipc, memory, history, ReportMinMax
<1>2. LockInv'
  BY LockStay, <1>0 DEF IndInv, TypeOK, Early, Critical, ReportMinMax, Goto, ipc
<1>3. LabelInv' /\ PhaseInv'
  BY ShmAssumption, <1>0
  DEF IndInv, TypeOK, LabelInv, Procs, Goto, ipc, memory, ReportMinMax, PhaseInv, PreInit,
      PostFinish, AllDone, Drained
<1>4. HeaderInv' /\ ListInv' /\ ClaimInv'
  BY ShmAssumption, <1>0
  DEF IndInv, TypeOK, HeaderInv, PhaseInv, PreInit, Procs, Offsets, BLOCK_SIZE, HEADER_SIZE,
      BLOCK_HEADER_SIZE, Goto, ipc, memory, ReportMinMax, ListInv, ClaimInv
<1>5. FillInv'
  BY ShmAssumption, <1>0
  DEF IndInv, TypeOK, LabelInv, FillInv, PhaseInv, HeaderInv, PreInit, Procs, Critical, Goto,
      ipc, memory, ReportMinMax
<1>6. WalkInv' /\ ConsumerInv'
  BY ShmAssumption, <1>0
  DEF IndInv, TypeOK, WalkInv, PhaseInv, HeaderInv, PreInit, Procs, Goto, ipc, memory,
      ReportMinMax, ConsumerInv, AllDone, Drained
<1>. QED
  BY <1>1, <1>2, <1>3, <1>4, <1>5, <1>6 DEF IndInv

\* A consumer stops after a walk that found nothing.
LEMMA FinishConsumerPreserves ==
  ASSUME NEW c \in Consumers, IndInv, FinishConsumer(c)
  PROVE  IndInv'
<1>0. c \in Procs
  BY DEF Procs
<1>1. TypeOK'
  <2>1. semval = 0 /\ semval' = 1
    <3>1. pc[c] \in Critical
      BY DEF FinishConsumer, sem_signal, Critical
    <3>2. semval = 0
      BY <1>0, <3>1, OnlyOneInside
    <3>. QED BY <3>2 DEF FinishConsumer, sem_signal
  <2>. QED
    BY <1>0, <2>1
    DEF IndInv, TypeOK, Pcs, Procs, Offsets, Goto, Leave, locals, memory, history,
        FinishConsumer
<1>2. LockInv'
  BY LockLeave, <1>0
  DEF IndInv, TypeOK, Early, Critical, FinishConsumer, sem_signal, Goto, Leave
<1>3. LabelInv' /\ PhaseInv'
  BY ShmAssumption, <1>0
  DEF IndInv, TypeOK, LabelInv, Procs, Goto, Leave, locals, memory, history, FinishConsumer,
      PhaseInv, PreInit, PostFinish, AllDone, Drained
<1>4. HeaderInv' /\ ListInv' /\ ClaimInv'
  BY ShmAssumption, <1>0
  DEF IndInv, TypeOK, HeaderInv, PhaseInv, PreInit, Procs, Offsets, BLOCK_SIZE, HEADER_SIZE,
      BLOCK_HEADER_SIZE, Goto, Leave, locals, memory, history, FinishConsumer, ListInv, ClaimInv
<1>5. FillInv'
  BY ShmAssumption, <1>0
  DEF IndInv, TypeOK, LabelInv, FillInv, PhaseInv, HeaderInv, PreInit, Procs, Critical, Goto,
      Leave, locals, memory, history, FinishConsumer
<1>6. WalkInv' /\ ConsumerInv'
  BY ShmAssumption, <1>0
  DEF IndInv, TypeOK, WalkInv, PhaseInv, HeaderInv, PreInit, Procs, Goto, Leave, locals, memory,
      history, FinishConsumer, ConsumerInv, AllDone, Drained
<1>. QED
  BY <1>1, <1>2, <1>3, <1>4, <1>5, <1>6 DEF IndInv

\* A killed process leaves the semaphore as it is.
LEMMA KillPreserves ==
  ASSUME NEW p \in Procs, IndInv, Kill(p)
  PROVE  IndInv'
<1>0. p \in Procs
  BY DEF Procs
<1>1. TypeOK'
  BY <1>0 DEF IndInv, TypeOK, Pcs, Procs, Offsets, Goto, Leave, locals, memory, history, Kill
<1>2. LockInv'
  BY LockStay, <1>0 DEF IndInv, TypeOK, Early, Critical, Kill, Goto, Leave, locals
<1>3. LabelInv'
  BY ShmAssumption, <1>0
  DEF IndInv, TypeOK, LabelInv, Procs, Goto, Leave, locals, memory, history, Kill
<1>4. PhaseInv'
  BY ShmAssumption, <1>0
  DEF IndInv, TypeOK, PhaseInv, PreInit, PostFinish, AllDone, Drained, Procs, Goto, Leave,
      locals, memory, history, Kill, Ended, LabelInv
<1>5. HeaderInv' /\ ListInv' /\ ClaimInv'
  BY ShmAssumption, <1>0
  DEF IndInv, TypeOK, HeaderInv, PhaseInv, PreInit, Procs, Offsets, BLOCK_SIZE, HEADER_SIZE,
      BLOCK_HEADER_SIZE, Goto, Leave, locals, memory, history, Kill, ListInv, ClaimInv
<1>6. FillInv'
  BY ShmAssumption, <1>0
  DEF IndInv, TypeOK, LabelInv, FillInv, PhaseInv, HeaderInv, PreInit, Procs, Critical, Goto,
      Leave, locals, memory, history, Kill
<1>7. WalkInv' /\ ConsumerInv'
  BY ShmAssumption, <1>0
  DEF IndInv, TypeOK, WalkInv, PhaseInv, HeaderInv, PreInit, Procs, Goto, Leave, locals, memory,
      history, Kill, ConsumerInv, AllDone, Drained
<1>. QED
  BY <1>1, <1>2, <1>3, <1>4, <1>5, <1>6, <1>7 DEF IndInv

\* The initial states satisfy the inductive invariant.
LEMMA InitEstablishes == Init => IndInv
<1>. SUFFICES ASSUME Init PROVE IndInv
  OBVIOUS
<1>1. /\ \A c \in Consumers : pc[c] = "c_start"
      /\ pc[Producer] = "p_start"
      /\ \A p \in Procs : pc[p] \notin Critical
  BY ShmAssumption DEF Init, Procs, Critical
<1>2. TypeOK
  BY ShmAssumption DEF Init, TypeOK, Pcs, Procs, Offsets, Zero
<1>3. LabelInv /\ LockInv /\ PhaseInv
  BY <1>1 DEF Init, LabelInv, LockInv, PhaseInv, MutualExclusion, PostFinish, AllDone
<1>4. HeaderInv /\ ListInv
  BY <1>1 DEF Init, HeaderInv, ListInv, PreInit
<1>5. FillInv /\ ClaimInv
  BY ShmAssumption, <1>1 DEF Init, FillInv, ClaimInv, Offsets, HEADER_SIZE
<1>6. WalkInv /\ ConsumerInv
  BY <1>1 DEF Init, WalkInv, ConsumerInv, Procs
<1>. QED
  BY <1>2, <1>3, <1>4, <1>5, <1>6 DEF IndInv

\* Stuttering preserves it.
LEMMA StutterPreserves == ASSUME IndInv, UNCHANGED vars PROVE IndInv'
<1>1. TypeOK' /\ LabelInv' /\ LockInv' /\ PhaseInv' /\ HeaderInv'
  BY DEF IndInv, TypeOK, LabelInv, LockInv, MutualExclusion, PhaseInv, Drained, HeaderInv,
         vars, locals, ipc, memory, history
<1>2. ListInv' /\ FillInv' /\ WalkInv' /\ ConsumerInv' /\ ClaimInv'
  BY DEF IndInv, ListInv, FillInv, WalkInv, ConsumerInv, Drained, ClaimInv,
         vars, locals, ipc, memory, history
<1>. QED
  BY <1>1, <1>2 DEF IndInv

\* Every step preserves it.
LEMMA StepPreserves == IndInv /\ [Next]_vars => IndInv'
<1>. SUFFICES ASSUME IndInv, [Next]_vars PROVE IndInv'
  OBVIOUS
<1>1. CASE producer_main
  BY <1>1, CreateShmPreserves, CreateSemPreserves, SetValPreserves, AttachProducerPreserves,
     InitFirstBlockOffsetPreserves, InitHeaderRestPreserves, EnterProducePreserves,
     FillBlockPreserves, NoRoomPreserves, LinkBlockPreserves, LeaveProducePreserves,
     EnterFinishPreserves, SetFinishedPreserves, LeaveFinishPreserves, EnterPollPreserves,
     PollBlockPreserves, LeavePollPreserves, RemoveShmPreserves, RemoveSemPreserves
  DEF producer_main
<1>2. ASSUME NEW c \in Consumers, consumer_main(c) PROVE IndInv'
  BY <1>2, FindShmPreserves, FindSemPreserves, AttachConsumerPreserves,
     EnterConsumePreserves, SemopFailsPreserves, ScanBlockPreserves, CopyNumbersPreserves,
     ClaimBlockPreserves, LeaveConsumePreserves, ReportMinMaxPreserves,
     FinishConsumerPreserves
  DEF consumer_main
<1>3. ASSUME NEW p \in Procs, Kill(p) PROVE IndInv'
  BY <1>3, KillPreserves
<1>4. CASE UNCHANGED vars
  BY <1>4, StutterPreserves
<1>. QED
  BY <1>1, <1>2, <1>3, <1>4 DEF Next

\* The inductive invariant holds in every reachable state.
THEOREM Invariance == Spec => []IndInv
  BY InitEstablishes, StepPreserves, PTL DEF Spec

\* semval never leaves {0, 1}, and no offset ever points outside the segment.
THEOREM TypeCorrect == Spec => []TypeOK
<1>1. IndInv => TypeOK
  BY DEF IndInv
<1>. QED
  BY <1>1, Invariance, PTL

\* At most one process is between sem_wait and sem_signal (lines 111-146,
\* 151-153, 159-171 and 223-261), whoever is killed.
THEOREM MutexHolds == Spec => []MutualExclusion
<1>1. IndInv => MutualExclusion
  BY DEF IndInv, LockInv
<1>. QED
  BY <1>1, Invariance, PTL

\* Every walk over the list (lines 161-169 and 225-233) sees a sound list.
THEOREM ListIsSound == Spec => []ListSound
<1>1. IndInv => ListSound
  BY DEF IndInv, HeaderInv, ListInv, ListSound
<1>. QED
  BY <1>1, Invariance, PTL

\* A set is claimed once, and marked consumed exactly then (line 242).
THEOREM EachSetClaimedOnce == Spec => []ClaimedOnce
<1>1. IndInv => ClaimedOnce
  BY DEF IndInv, TypeOK, ClaimInv, ClaimedOnce
<1>. QED
  BY <1>1, Invariance, PTL

\* Line 182 never removes a segment that still holds an unclaimed set.
THEOREM RemovalIsSafe == Spec => []RemovedOnlyDrained
<1>1. IndInv => RemovedOnlyDrained
  BY DEF IndInv, PhaseInv, RemovedOnlyDrained
<1>. QED
  BY <1>1, Invariance, PTL

\* A consumer that leaves its loop, by itself or thrown out by semop, leaves
\* no set behind.
THEOREM ConsumersLeaveNothing == Spec => []NoSetAbandoned
<1>1. IndInv => NoSetAbandoned
  BY DEF IndInv, ConsumerInv, PhaseInv, NoSetAbandoned, Drained, AllDone
<1>. QED
  BY <1>1, Invariance, PTL

\* The producer removes what it created on each of its exits.
THEOREM ProducerCleansUp == Spec => []NoIpcLeak
<1>1. IndInv => NoIpcLeak
  BY DEF IndInv, PhaseInv, NoIpcLeak
<1>. QED
  BY <1>1, Invariance, PTL


\* If claims and written blocks stay and every holder keeps its copy or reports it,
\* no claim is lost.
LEMMA HoldingKept ==
  ASSUME NoClaimLost, kills' = 0 => kills = 0,
         written' = written, size' = size, claims' = claims, reported \subseteq reported',
         \A c \in Consumers : pc[c] \in {"c_signal_claim", "c_report"} =>
            \/ off[c] \in reported'
            \/ pc'[c] \in {"c_signal_claim", "c_report"} /\ off'[c] = off[c] /\ nums'[c] = nums[c]
  PROVE  NoClaimLost'
BY DEF NoClaimLost

\* No step loses a claim: in particular SemopFails is never taken at line 244.
LEMMA StepKeepsClaims ==
  ASSUME IndInv, NoClaimLost, [Next]_vars
  PROVE  NoClaimLost'
<1>1. CASE producer_main
  <2>1. CASE LinkBlock
    <3>1. \A c \in Consumers : pc'[c] = pc[c] /\ off'[c] = off[c] /\ nums'[c] = nums[c]
      BY <2>1, ShmAssumption DEF IndInv, TypeOK, LinkBlock, Goto, Procs
    <3>2. free_offset \in Offsets /\ free_offset \notin written /\ claims' = claims
      BY <2>1, NumberTypes, FreeIsBeyond DEF IndInv, TypeOK, LinkBlock
    <3>3. /\ written' = written \union {free_offset} /\ claims[free_offset] = 0
          /\ \A b \in written : size'[b] = size[b]
      BY <2>1, <3>2 DEF IndInv, TypeOK, ClaimInv, LinkBlock
    <3>. QED
      BY <2>1, <3>1, <3>2, <3>3 DEF NoClaimLost, LinkBlock
  <2>2. CASE ~LinkBlock
    <3>1. \A c \in Consumers : pc'[c] = pc[c] /\ off'[c] = off[c] /\ nums'[c] = nums[c]
      BY <1>1, <2>2, ShmAssumption
      DEF IndInv, TypeOK, producer_main, CreateShm, CreateSem, SetVal, AttachProducer,
          InitFirstBlockOffset, InitHeaderRest, EnterProduce, FillBlock, NoRoom, LeaveProduce,
          EnterFinish, SetFinished, LeaveFinish, EnterPoll, PollBlock, LeavePoll, RemoveShm,
          RemoveSem, Goto, Leave, Procs, locals, sem_wait, sem_signal
    <3>2. UNCHANGED <<kills, history>>
      BY <1>1, <2>2
      DEF producer_main, CreateShm, CreateSem, SetVal, AttachProducer,
          InitFirstBlockOffset, InitHeaderRest, EnterProduce, FillBlock, NoRoom, LeaveProduce,
          EnterFinish, SetFinished, LeaveFinish, EnterPoll, PollBlock, LeavePoll, RemoveShm,
          RemoveSem
    <3>. QED
      BY <3>1, <3>2, HoldingKept DEF history
  <2>. QED BY <2>1, <2>2
<1>2. ASSUME NEW c \in Consumers, consumer_main(c) PROVE NoClaimLost'
  <2>0. c \in Procs
    BY DEF Procs
  <2>1. CASE ClaimBlock(c)
    <3>1. /\ off[c] \in written /\ off[c] \in Offsets /\ nums[c] = size[off[c]]
          /\ off' = off /\ nums' = nums /\ written' = written /\ size' = size
          /\ reported' = reported /\ kills' = kills
      BY <2>0, <2>1 DEF IndInv, TypeOK, ConsumerInv, ClaimBlock, locals
    <3>2. pc'[c] = "c_signal_claim" /\ \A d \in Consumers \ {c} : pc'[d] = pc[d]
      BY <2>0, <2>1 DEF IndInv, TypeOK, ClaimBlock, Goto, Procs
    <3>3. pc[c] = "c_claim" /\ \A o \in Offsets \ {off[c]} : claims'[o] = claims[o]
      BY <2>1, <3>1 DEF IndInv, TypeOK, ClaimBlock
    <3>4. written \subseteq Offsets
      BY DEF IndInv, TypeOK
    <3>. QED
      BY <3>1, <3>2, <3>3, <3>4 DEF NoClaimLost
  <2>2. CASE ~ClaimBlock(c)
    <3>1. \A d \in Consumers \ {c} : pc'[d] = pc[d] /\ off'[d] = off[d] /\ nums'[d] = nums[d]
      BY <1>2, <2>0, <2>2
      DEF IndInv, TypeOK, Procs, consumer_main, FindShm, FindSem, AttachConsumer, EnterConsume,
          SemopFails, ScanBlock, CopyNumbers, LeaveConsume, ReportMinMax, FinishConsumer,
          Goto, Leave, locals, sem_wait, sem_signal
    <3>2. /\ UNCHANGED <<kills, written, size, claims>> /\ reported \subseteq reported'
      BY <1>2, <2>2
      DEF consumer_main, FindShm, FindSem, AttachConsumer, EnterConsume, SemopFails, ScanBlock,
          CopyNumbers, LeaveConsume, ReportMinMax, FinishConsumer, history
    <3>3. pc[c] = "c_signal_claim" => ~SemopFails(c)
      <4>1. sem = "gone" /\ pc[c] = "c_signal_claim" => written = {} \/ pc[Producer] \in AllDone
        BY DEF IndInv, PhaseInv, AllDone
      <4>2. pc[c] = "c_signal_claim" => written # {} /\ pc[Producer] \notin AllDone
        BY DEF IndInv, ConsumerInv
      <4>. QED
        BY <4>1, <4>2 DEF SemopFails
    <3>4. ASSUME pc[c] \in {"c_signal_claim", "c_report"}
          PROVE  \/ off[c] \in reported'
                 \/ /\ pc'[c] \in {"c_signal_claim", "c_report"}
                    /\ off'[c] = off[c] /\ nums'[c] = nums[c]
      BY <1>2, <2>0, <2>2, <3>3, <3>4
      DEF IndInv, TypeOK, consumer_main, FindShm, FindSem, AttachConsumer, EnterConsume,
          SemopFails, ScanBlock, CopyNumbers, LeaveConsume, ReportMinMax, FinishConsumer,
          Goto, locals, sem_wait, sem_signal
    <3>. QED
      BY <3>1, <3>2, <3>4, HoldingKept
  <2>. QED BY <2>1, <2>2
<1>3. ASSUME NEW p \in Procs, Kill(p) PROVE NoClaimLost'
  BY <1>3 DEF IndInv, TypeOK, NoClaimLost, Kill
<1>4. CASE UNCHANGED vars
  BY <1>4 DEF NoClaimLost, vars, locals, history
<1>. QED
  BY <1>1, <1>2, <1>3, <1>4 DEF Next

\* Nobody is killed: a claimed set is printed, or its consumer still holds
\* the copy; a failing sem_signal (line 244) never throws it away.
THEOREM ClaimsAreReported == Spec => []NoClaimLost
<1>1. Init => NoClaimLost
  BY DEF Init, NoClaimLost
<1>. QED
  BY <1>1, Invariance, StepKeepsClaims, PTL DEF Spec

-----------------------------------------------------------------------------
(* ShmQueue implements SetService *)

\* What the service sees of a step in which no consumer claims, prints or ends.
LEMMA HandsStay ==
  ASSUME \A c \in Consumers : \/ pc'[c] = pc[c] /\ off'[c] = off[c]
                              \/ /\ {pc[c], pc'[c]} \cap {"c_signal_claim", "c_report"} = {}
                                 /\ {pc[c], pc'[c]} \cap {"done", "killed"} = {}
                              \/ /\ off'[c] = off[c]
                                 /\ pc[c] = "c_signal_claim" /\ pc'[c] = "c_report"
  PROVE  Held' = Held /\ At("done")' = At("done") /\ At("killed")' = At("killed")
<1>1. \A c \in Consumers : Holds(c)' = Holds(c)
  BY DEF Holds
<1>2. \A c \in Consumers : (pc'[c] = "done" <=> pc[c] = "done") /\ (pc'[c] = "killed" <=> pc[c] = "killed")
  OBVIOUS
<1>. QED
  BY <1>1, <1>2 DEF Held, At

\* The sets that are taken are the written blocks with count 0.
LEMMA TakenAreZeroed == IndInv => (Drained <=> written = Claimed)
<1>. SUFFICES ASSUME IndInv PROVE Drained <=> written = Claimed
  OBVIOUS
<1>1. \A o \in Offsets : claims[o] > 0 <=> o \in written /\ block[o].count = 0
  BY DEF IndInv, ClaimInv
<1>2. written \subseteq Offsets
  BY DEF IndInv, TypeOK
<1>. QED
  BY <1>1, <1>2 DEF Claimed, Drained

\* The empty service.
LEMMA ServiceInit == Init => Service!Init
<1>. SUFFICES ASSUME Init PROVE Service!Init
  OBVIOUS
<1>1. \A c \in Consumers : pc[c] = "c_start"
  BY ShmAssumption DEF Init, Procs
<1>2. Claimed = {} /\ Held = [c \in Consumers |-> {}] /\ At("done") = {} /\ At("killed") = {}
  BY <1>1 DEF Init, Claimed, Held, Holds, At
<1>. QED
  BY <1>2 DEF Init, Service!Init

\* The rest of the producer's code is invisible to the service.
LEMMA ProducerHands ==
  ASSUME IndInv, producer_main
  PROVE  Held' = Held /\ At("done")' = At("done") /\ At("killed")' = At("killed")
<1>1. \A c \in Consumers : pc'[c] = pc[c] /\ off'[c] = off[c]
  BY ShmAssumption
  DEF IndInv, TypeOK, producer_main, CreateShm, CreateSem, SetVal, AttachProducer,
      InitFirstBlockOffset, InitHeaderRest, EnterProduce, FillBlock, NoRoom, LinkBlock,
      LeaveProduce, EnterFinish, SetFinished, LeaveFinish, EnterPoll, PollBlock, LeavePoll,
      RemoveShm, RemoveSem, Goto, Leave, Procs, locals, sem_wait, sem_signal
<1>. QED
  BY <1>1, HandsStay

LEMMA ProducerServes ==
  ASSUME IndInv, producer_main
  PROVE  [Service!Next]_Service!serviceVars
<1>0. Held' = Held /\ At("done")' = At("done") /\ At("killed")' = At("killed")
  BY ProducerHands
<1>1. CASE LinkBlock
  <2>1. free_offset \in Offsets /\ free_offset \notin written
    BY FreeIsBeyond, NumberTypes DEF IndInv, TypeOK
  <2>2. /\ producer_finished # 1 /\ shm # "marked"
    BY <1>1 DEF IndInv, PhaseInv, PostFinish, LinkBlock
  <2>3. /\ written' = written \union {free_offset} /\ Claimed' = Claimed /\ reported' = reported
        /\ producer_finished' = producer_finished /\ shm' = shm
    BY <1>1 DEF LinkBlock, Claimed, ipc
  <2>4. Service!Post(free_offset)
    BY <1>0, <2>1, <2>2, <2>3 DEF Service!Post
  <2>. QED
    BY <2>1, <2>4 DEF Service!Next
<1>2. CASE SetFinished
  <2>1. producer_finished # 1 /\ producer_finished' = 1
    BY <1>2 DEF IndInv, PhaseInv, PostFinish, SetFinished
  <2>2. UNCHANGED <<written, Claimed, reported, shm>>
    BY <1>2 DEF SetFinished, Claimed, ipc, history
  <2>3. Service!Finish
    BY <1>0, <2>1, <2>2 DEF Service!Finish
  <2>. QED
    BY <2>3 DEF Service!Next
<1>3. CASE ~LinkBlock /\ ~SetFinished
  <2>1. UNCHANGED <<written, Claimed, reported>>
    BY <1>3
    DEF producer_main, CreateShm, CreateSem, SetVal, AttachProducer,
        InitFirstBlockOffset, InitHeaderRest, EnterProduce, FillBlock, NoRoom, LeaveProduce,
        EnterFinish, LeaveFinish, EnterPoll, PollBlock, LeavePoll, RemoveShm, RemoveSem,
        history, Claimed
  <2>2. (producer_finished' = 1) = (producer_finished = 1)
    BY <1>3
    DEF IndInv, PhaseInv, PostFinish,
        producer_main, CreateShm, CreateSem, SetVal, AttachProducer,
        InitFirstBlockOffset, InitHeaderRest, EnterProduce, FillBlock, NoRoom, LeaveProduce,
        EnterFinish, LeaveFinish, EnterPoll, PollBlock, LeavePoll, RemoveShm, RemoveSem,
        memory
  <2>3. CASE shm' = shm
    BY <1>0, <2>1, <2>2, <2>3 DEF Service!serviceVars
  <2>4. CASE shm' # shm
    <3>1. \/ shm = "none" /\ shm' = "live"
          \/ shm # "marked" /\ shm' = "marked"
      BY <1>3, <2>4
      DEF IndInv, PhaseInv,
          producer_main, CreateShm, CreateSem, SetVal, AttachProducer,
          InitFirstBlockOffset, InitHeaderRest, EnterProduce, FillBlock, NoRoom, LeaveProduce,
          EnterFinish, LeaveFinish, EnterPoll, PollBlock, LeavePoll, RemoveShm, RemoveSem,
          ipc, RemoveBoth, sem_wait, sem_signal
    <3>2. CASE shm' = "live"
      BY <1>0, <2>1, <2>2, <3>1, <3>2 DEF Service!serviceVars
    <3>3. CASE shm' = "marked"
      <4>1. IndInv'
        BY StepPreserves DEF Next
      <4>2. (IndInv => (Drained <=> written = Claimed))'
        BY TakenAreZeroed, PTL
      <4>3. written' = Claimed'
        BY <3>3, <4>1, <4>2 DEF IndInv, PhaseInv
      <4>4. Service!Close
        BY <1>0, <2>1, <2>2, <3>1, <3>3, <4>3 DEF Service!Close, Service!NothingWaits
      <4>. QED
        BY <4>4 DEF Service!Next
    <3>. QED
      BY <3>1, <3>2, <3>3
  <2>. QED
    BY <2>3, <2>4
<1>. QED
  BY <1>1, <1>2, <1>3

\* The steps of a consumer that the service sees.
LEMMA ClaimServes ==
  ASSUME IndInv, NEW c \in Consumers, ClaimBlock(c)
  PROVE  Service!Take(c, off[c]) /\ off[c] \in Offsets
<1>1. c \in Procs /\ pc[c] = "c_claim"
  BY DEF Procs, ClaimBlock
<1>2. off[c] \in Offsets /\ off[c] \in written /\ block[off[c]].count > 0
  BY <1>1 DEF IndInv, TypeOK, ConsumerInv
<1>3. off[c] \notin Claimed /\ Claimed' = Claimed \union {off[c]}
  <2>1. claims[off[c]] = 0
    BY <1>2 DEF IndInv, ClaimInv
  <2>2. /\ claims'[off[c]] = 1
        /\ \A o \in Offsets : o # off[c] => claims'[o] = claims[o]
    BY <1>2, <2>1 DEF IndInv, TypeOK, ClaimBlock
  <2>. QED
    BY <1>2, <2>1, <2>2 DEF Claimed
<1>4. shm # "marked"
  BY <1>2 DEF IndInv, PhaseInv, Drained
<1>5. /\ pc'[c] = "c_signal_claim" /\ off' = off
      /\ \A d \in Consumers : d # c => pc'[d] = pc[d]
  BY <1>1 DEF IndInv, TypeOK, ClaimBlock, Goto, locals, Procs
<1>6. Held' = [Held EXCEPT ![c] = {off[c]}] /\ Held[c] = {}
  BY <1>1, <1>5 DEF Held, Holds
<1>7. At("done")' = At("done") /\ At("killed")' = At("killed")
  BY <1>1, <1>5 DEF At
<1>8. Service!Working(c)
  BY <1>1 DEF At, Service!Working
<1>9. UNCHANGED <<written, reported, producer_finished, shm>>
  BY DEF ClaimBlock, ipc
<1>. QED
  BY <1>2, <1>3, <1>4, <1>6, <1>7, <1>8, <1>9 DEF Service!Take

LEMMA ReportServes ==
  ASSUME IndInv, NEW c \in Consumers, ReportMinMax(c)
  PROVE  Service!Report(c)
<1>1. c \in Procs /\ pc[c] = "c_report"
  BY DEF Procs, ReportMinMax
<1>2. /\ pc'[c] = "c_wait" /\ off' = off
      /\ \A d \in Consumers : d # c => pc'[d] = pc[d]
  BY <1>1 DEF IndInv, TypeOK, ReportMinMax, Goto, Procs
<1>3. Held' = [Held EXCEPT ![c] = {}] /\ Held[c] = {off[c]}
  BY <1>1, <1>2 DEF Held, Holds
<1>4. At("done")' = At("done") /\ At("killed")' = At("killed") /\ Service!Working(c)
  BY <1>1, <1>2 DEF At, Service!Working
<1>5. /\ reported' = reported \union {off[c]}
      /\ UNCHANGED <<written, Claimed, producer_finished, shm>>
  BY DEF ReportMinMax, Claimed, ipc, memory
<1>. QED
  BY <1>3, <1>4, <1>5 DEF Service!Report

LEMMA FinishServes ==
  ASSUME IndInv, NEW c \in Consumers, FinishConsumer(c)
  PROVE  Service!Retire(c)
<1>1. c \in Procs /\ pc[c] = "c_signal_end"
  BY DEF Procs, FinishConsumer
<1>2. /\ pc'[c] = "done" /\ off' = off
      /\ \A d \in Consumers : d # c => pc'[d] = pc[d]
  BY <1>1 DEF IndInv, TypeOK, FinishConsumer, Leave, Goto, locals, Procs
<1>3. Held' = Held /\ Held[c] = {}
  BY <1>1, <1>2 DEF Held, Holds
<1>4. /\ At("done")' = At("done") \union {c} /\ At("killed")' = At("killed")
      /\ Service!Working(c)
  BY <1>1, <1>2 DEF At, Service!Working
<1>5. producer_finished = 1 /\ written = Claimed
  BY <1>1, TakenAreZeroed DEF IndInv, ConsumerInv
<1>6. UNCHANGED <<written, Claimed, reported, producer_finished, shm>>
  BY DEF FinishConsumer, Claimed, memory, history
<1>. QED
  BY <1>3, <1>4, <1>5, <1>6 DEF Service!Retire, Service!NothingWaits

\* A killed consumer loses what it holds; a killed producer is none of the
\* service's business.
LEMMA KillServes ==
  ASSUME IndInv, NEW p \in Procs, Kill(p)
  PROVE  [Service!Next]_Service!serviceVars
<1>1. /\ pc[p] \notin {"done", "killed"} /\ pc'[p] = "killed" /\ off' = off
      /\ \A d \in Procs : d # p => pc'[d] = pc[d]
  BY DEF IndInv, TypeOK, Kill, Leave, Goto, locals, Ended
<1>2. UNCHANGED <<written, Claimed, reported, producer_finished, shm>>
  BY DEF Kill, Claimed, memory, history
<1>3. CASE p \in Consumers
  <2>1. Held' = [Held EXCEPT ![p] = {}]
    BY <1>1, <1>3 DEF Held, Holds, Procs
  <2>2. /\ At("killed")' = At("killed") \union {p} /\ At("done")' = At("done")
        /\ Service!Working(p)
    BY <1>1, <1>3 DEF At, Procs, Service!Working
  <2>3. Service!Crash(p)
    BY <1>2, <2>1, <2>2 DEF Service!Crash
  <2>. QED
    BY <1>3, <2>3 DEF Service!Next
<1>4. CASE p \notin Consumers
  <2>1. \A c \in Consumers : pc'[c] = pc[c] /\ off'[c] = off[c]
    BY <1>1, <1>4 DEF Procs
  <2>2. Held' = Held /\ At("done")' = At("done") /\ At("killed")' = At("killed")
    BY <2>1, HandsStay
  <2>. QED
    BY <1>2, <2>2 DEF Service!serviceVars
<1>. QED
  BY <1>3, <1>4

\* semop never fails under a consumer that holds a set.
LEMMA ConsumerServes ==
  ASSUME IndInv, NEW c \in Consumers, consumer_main(c)
  PROVE  [Service!Next]_Service!serviceVars
<1>0. c \in Procs
  BY DEF Procs
<1>1. CASE ClaimBlock(c)
  BY <1>1, ClaimServes DEF Service!Next
<1>2. CASE ReportMinMax(c)
  BY <1>2, ReportServes DEF Service!Next
<1>3. CASE FinishConsumer(c)
  BY <1>3, FinishServes DEF Service!Next
<1>4. CASE ~ClaimBlock(c) /\ ~ReportMinMax(c) /\ ~FinishConsumer(c)
  <2>1. UNCHANGED <<written, Claimed, reported, producer_finished, shm>>
    BY <1>4
    DEF consumer_main, FindShm, FindSem, AttachConsumer, EnterConsume, SemopFails, ScanBlock,
        CopyNumbers, LeaveConsume, history, memory, ipc, Claimed, sem_wait, sem_signal
  <2>2. pc[c] = "c_signal_claim" => ~SemopFails(c)
    <3>1. sem = "gone" /\ pc[c] = "c_signal_claim" => written = {} \/ pc[Producer] \in AllDone
      BY DEF IndInv, PhaseInv, AllDone
    <3>2. pc[c] = "c_signal_claim" => written # {} /\ pc[Producer] \notin AllDone
      BY DEF IndInv, ConsumerInv
    <3>. QED
      BY <3>1, <3>2 DEF SemopFails
  <2>3. \A d \in Consumers : d # c => pc'[d] = pc[d] /\ off'[d] = off[d]
    BY <1>0, <1>4
    DEF IndInv, TypeOK, Procs, consumer_main, FindShm, FindSem, AttachConsumer, EnterConsume,
        SemopFails, ScanBlock, CopyNumbers, LeaveConsume, Goto, Leave, locals, sem_wait,
        sem_signal
  <2>4. \/ /\ off'[c] = off[c] /\ pc[c] = "c_signal_claim" /\ pc'[c] = "c_report"
        \/ /\ pc[c] \notin {"c_signal_claim", "c_report", "done", "killed"}
           /\ pc'[c] \notin {"c_signal_claim", "c_report", "done", "killed"}
    BY <1>0, <1>4, <2>2
    DEF IndInv, TypeOK, consumer_main, FindShm, FindSem, AttachConsumer, EnterConsume,
        SemopFails, ScanBlock, CopyNumbers, LeaveConsume, Goto, Leave, locals, sem_wait,
        sem_signal
  <2>5. Held' = Held /\ At("done")' = At("done") /\ At("killed")' = At("killed")
    BY <2>3, <2>4, HandsStay
  <2>. QED
    BY <2>1, <2>5 DEF Service!serviceVars
<1>. QED
  BY <1>1, <1>2, <1>3, <1>4 DEF consumer_main

\* The programs are the service: each of their steps is one of its steps or
\* none, whoever is killed and whenever a consumer starts.
THEOREM ImplementsService == Spec => HandsOutEachSet
<1>1. IndInv /\ [Next]_vars => [Service!Next]_Service!serviceVars
  <2>. SUFFICES ASSUME IndInv, [Next]_vars PROVE [Service!Next]_Service!serviceVars
    OBVIOUS
  <2>1. CASE UNCHANGED vars
    <3>1. Held' = Held /\ At("done")' = At("done") /\ At("killed")' = At("killed")
      BY <2>1, HandsStay DEF vars, locals
    <3>. QED
      BY <2>1, <3>1 DEF vars, ipc, memory, history, Claimed, Service!serviceVars
  <2>. QED
    BY <2>1, ProducerServes, ConsumerServes, KillServes DEF Next
<1>. QED
  BY <1>1, ServiceInit, Invariance, PTL DEF Spec, HandsOutEachSet, Service!Spec
=============================================================================

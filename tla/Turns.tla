-------------------------------- MODULE Turns --------------------------------
(***************************************************************************)
(* module3/task10 (System V) and task11 (POSIX): a parent puts sets of      *)
(* numbers into shared memory and prints the minimum and maximum its child  *)
(* stores there; two semaphores pass the turn.                              *)
(*                                                                          *)
(* A run is one execution, numbered in the order of starting.  The memory   *)
(* is found by a key or a name and outlives a run that is killed; so do the *)
(* named semaphores of task11, which are opened with whatever value they    *)
(* have, while those of task10 are private.  A child survives its parent,   *)
(* and may meet the next run; two parents at once, which nothing prevents,  *)
(* are not modelled.  A set is <<run, number>>, NONE what memset leaves.    *)
(* semop, unlike sem_wait, fails when a stopped process is continued        *)
(* (Ctrl+Z, fg), and nobody looks at its result.                            *)
(***************************************************************************)
EXTENDS Integers, FiniteSets

CONSTANTS
    Runs,
    MaxSets,  \* bound on the sets of a run
    MaxFaults \* bound on kills and on stops

VARIABLES
    api,       \* "sysv" or "posix"
    ppc, cpc,  \* parents and children
    sets,      \* sets each parent has made
    seg, semC, semP, \* the objects each run uses
    shm, child, parent, \* the names: the run whose object they stand for, or 0
    mem,       \* each segment: set, result and processed_sets
    valC, valP,\* the semaphores
    min_max,   \* what each child has computed and not stored yet
    shown,     \* what each parent printed last
    disturbed, \* history: runs that met another's child, or were stopped
    faults

objects == <<seg, semC, semP>>
tnNames == <<shm, child, parent>>
tnVars  == <<api, ppc, cpc, sets, objects, tnNames, mem, valC, valP, min_max, shown,
             disturbed, faults>>

NONE == <<0, 0>>
Blank == [set |-> NONE, result |-> NONE, processed_sets |-> 0]

Init ==
    /\ api \in {"sysv", "posix"}
    /\ ppc = [r \in Runs |-> "new"] /\ cpc = [r \in Runs |-> "none"]
    /\ sets = [r \in Runs |-> 0]
    /\ seg = [r \in Runs |-> 0] /\ semC = [r \in Runs |-> 0] /\ semP = [r \in Runs |-> 0]
    /\ shm = 0 /\ child = 0 /\ parent = 0
    /\ mem = [r \in Runs |-> Blank]
    /\ valC = [r \in Runs |-> 0] /\ valP = [r \in Runs |-> 0]
    /\ min_max = [r \in Runs |-> NONE] /\ shown = [r \in Runs |-> Blank]
    /\ disturbed = {} /\ faults = 0

ParentUp(r) == ppc[r] \notin {"new", "killed", "exited"}
ChildUp(r)  == cpc[r] \notin {"none", "killed", "left"}
Go(r, l) == ppc' = [ppc EXCEPT ![r] = l]
At(r, l) == cpc' = [cpc EXCEPT ![r] = l]

-----------------------------------------------------------------------------
(* The parent *)

\* shmget or shm_open, attach, memset.
Attach(r) ==
    LET others == {q \in Runs : ChildUp(q)}
        id     == IF shm = 0 THEN r ELSE shm
    IN /\ ppc[r] = "new" /\ \A q \in Runs : (q < r => ppc[q] # "new") /\ ~ParentUp(q)
       /\ shm' = id /\ seg' = [seg EXCEPT ![r] = id]
       /\ mem' = [mem EXCEPT ![id] = Blank]
       /\ disturbed' = disturbed \union others \union (IF others = {} THEN {} ELSE {r})
       /\ Go(r, "semaphores")
       /\ UNCHANGED <<api, cpc, sets, semC, semP, child, parent, valC, valP, min_max,
                      shown, faults>>

\* IPC_PRIVATE: a new pair, both 0.
create_semaphores(r) ==
    /\ api = "sysv" /\ ppc[r] = "semaphores" /\ Go(r, "fork")
    /\ semC' = [semC EXCEPT ![r] = r] /\ semP' = [semP EXCEPT ![r] = r]
    /\ UNCHANGED <<api, cpc, sets, seg, tnNames, mem, valC, valP, min_max, shown,
                   disturbed, faults>>

\* sem_open with O_CREAT, twice: a semaphore that exists keeps its value.
OpenSemaphores(r) ==
    /\ api = "posix"
    /\ \/ /\ ppc[r] = "semaphores" /\ Go(r, "second")
          /\ child' = (IF child = 0 THEN r ELSE child)
          /\ semC' = [semC EXCEPT ![r] = child'] /\ UNCHANGED <<parent, semP>>
          /\ disturbed' = disturbed \union (IF valC[child'] > 0 THEN {r} ELSE {})
       \/ /\ ppc[r] = "second" /\ Go(r, "fork")
          /\ parent' = (IF parent = 0 THEN r ELSE parent)
          /\ semP' = [semP EXCEPT ![r] = parent'] /\ UNCHANGED <<child, semC>>
          /\ disturbed' = disturbed \union (IF valP[parent'] > 0 THEN {r} ELSE {})
    /\ UNCHANGED <<api, cpc, sets, seg, shm, mem, valC, valP, min_max, shown, faults>>

Fork(r) ==
    /\ ppc[r] = "fork" /\ Go(r, "signal") /\ At(r, "wait")
    /\ UNCHANGED <<api, sets, objects, tnNames, mem, valC, valP, min_max, shown,
                   disturbed, faults>>

Install(r) ==
    /\ ppc[r] = "signal" /\ Go(r, "fill")
    /\ UNCHANGED <<api, cpc, sets, objects, tnNames, mem, valC, valP, min_max, shown,
                   disturbed, faults>>

\* count and numbers of the next set.
Fill(r) ==
    /\ ppc[r] = "fill" /\ sets[r] < MaxSets /\ Go(r, "post")
    /\ sets' = [sets EXCEPT ![r] = @ + 1]
    /\ mem' = [mem EXCEPT ![seg[r]].set = <<r, sets'[r]>>]
    /\ UNCHANGED <<api, cpc, objects, tnNames, valC, valP, min_max, shown, disturbed, faults>>

ParentPost(r) ==
    /\ ppc[r] = "post" /\ Go(r, "wait")
    /\ valC' = [valC EXCEPT ![semC[r]] = @ + 1]
    /\ UNCHANGED <<api, cpc, sets, objects, tnNames, mem, valP, min_max, shown,
                   disturbed, faults>>

\* semop fails in a process that was stopped.
Continued(r) == /\ api = "sysv" /\ disturbed' = disturbed \union {r}
                /\ faults < MaxFaults /\ faults' = faults + 1

\* Mutant: the parent does not wait for its child.
ParentWait_Free(r) ==
    /\ ppc[r] = "wait" /\ Go(r, "print")
    /\ UNCHANGED <<api, cpc, sets, objects, tnNames, mem, valC, valP, min_max, shown,
                   disturbed, faults>>

\* The result is there, or semop was interrupted.
ParentWait(r) ==
    /\ ppc[r] = "wait" /\ Go(r, "print")
    /\ \/ valP[semP[r]] > 0 /\ valP' = [valP EXCEPT ![semP[r]] = @ - 1]
          /\ UNCHANGED <<disturbed, faults>>
       \/ Continued(r) /\ UNCHANGED valP
    /\ UNCHANGED <<api, cpc, sets, objects, tnNames, mem, valC, min_max, shown>>

Show(r) ==
    /\ ppc[r] = "print" /\ Go(r, "fill")
    /\ shown' = [shown EXCEPT ![r] = mem[seg[r]]]
    /\ UNCHANGED <<api, cpc, sets, objects, tnNames, mem, valC, valP, min_max,
                   disturbed, faults>>

-----------------------------------------------------------------------------
(* The child *)

ChildWait(r) ==
    /\ cpc[r] = "wait" /\ At(r, "read")
    /\ \/ valC[semC[r]] > 0 /\ valC' = [valC EXCEPT ![semC[r]] = @ - 1]
          /\ UNCHANGED <<disturbed, faults>>
       \/ Continued(r) /\ UNCHANGED valC
    /\ UNCHANGED <<api, ppc, sets, objects, tnNames, mem, valP, min_max, shown>>

\* task10's child leaves when the count is 0.
Compute(r) ==
    /\ cpc[r] = "read"
    /\ IF api = "sysv" /\ mem[seg[r]].set = NONE THEN At(r, "left") ELSE At(r, "store")
    /\ min_max' = [min_max EXCEPT ![r] = mem[seg[r]].set]
    /\ UNCHANGED <<api, ppc, sets, objects, tnNames, mem, valC, valP, shown,
                   disturbed, faults>>

Store(r) ==
    /\ cpc[r] = "store" /\ At(r, "post")
    /\ mem' = [mem EXCEPT ![seg[r]].result = min_max[r], ![seg[r]].processed_sets = @ + 1]
    /\ UNCHANGED <<api, ppc, sets, objects, tnNames, valC, valP, min_max, shown,
                   disturbed, faults>>

ChildPost(r) ==
    /\ cpc[r] = "post" /\ At(r, "wait")
    /\ valP' = [valP EXCEPT ![semP[r]] = @ + 1]
    /\ UNCHANGED <<api, ppc, sets, objects, tnNames, mem, valC, min_max, shown,
                   disturbed, faults>>

-----------------------------------------------------------------------------
(* Signals *)

\* SIGINT once the handler is there: the child is ended, the objects or the
\* names go, whoever made what they stand for.
sigint_handler(r) ==
    /\ ParentUp(r) /\ ppc[r] \notin {"semaphores", "second", "fork", "signal"}
    /\ Go(r, "exited") /\ (IF ChildUp(r) THEN At(r, "killed") ELSE UNCHANGED cpc)
    /\ IF api = "sysv"
       THEN shm' = (IF shm = seg[r] THEN 0 ELSE shm) /\ UNCHANGED <<child, parent>>
       ELSE shm' = 0 /\ child' = 0 /\ parent' = 0
    /\ UNCHANGED <<api, sets, objects, mem, valC, valP, min_max, shown, disturbed, faults>>

\* SIGKILL, or SIGINT before the handler is there.
Kill(r) ==
    /\ faults < MaxFaults /\ faults' = faults + 1
    /\ \/ ParentUp(r) /\ Go(r, "killed") /\ UNCHANGED cpc
       \/ ChildUp(r) /\ At(r, "killed") /\ UNCHANGED ppc
    /\ UNCHANGED <<api, sets, objects, tnNames, mem, valC, valP, min_max, shown, disturbed>>

Parent(r) == \/ Attach(r) \/ create_semaphores(r) \/ OpenSemaphores(r) \/ Fork(r)
             \/ Install(r) \/ Fill(r) \/ ParentPost(r) \/ ParentWait(r) \/ Show(r)
Child(r)  == ChildWait(r) \/ Compute(r) \/ Store(r) \/ ChildPost(r)

Next == \E r \in Runs : Parent(r) \/ Child(r) \/ sigint_handler(r) \/ Kill(r)

Spec == Init /\ [][Next]_tnVars

-----------------------------------------------------------------------------
(* Properties *)

\* A run that has the memory to itself and is never stopped, whatever killed
\* runs left behind (but a semaphore of task11 above 0): what the parent prints
\* is the result of the set it prints, with that set's number; parent and child
\* are never at the data together; the child leaves only when it is killed; and
\* after Ctrl+C neither the child nor a name is left.
TakesTurns == \A r \in Runs \ disturbed :
    /\ shown[r].result = shown[r].set /\ shown[r].processed_sets = shown[r].set[2]
    /\ ppc[r] \in {"fill", "print"} => cpc[r] \notin {"read", "store", "post"}
    /\ cpc[r] # "left"
    /\ ppc[r] = "exited" => ~ChildUp(r) /\ r \notin {shm, child, parent}
=============================================================================

------------------------------ MODULE FileLines ------------------------------
(***************************************************************************)
(* Lines handed on through a file under a semaphore: writers append them,   *)
(* readers take the first and write the rest back.                          *)
(*                                                                          *)
(* module3/task8: any number of producers and consumers, one System V       *)
(* semaphore that stays for ever.  module3/task9: a parent and its child, a *)
(* named semaphore that is opened with whatever value it has; the last line *)
(* is END, the parent waits for its child and removes the semaphore.  Runs  *)
(* of task9 follow each other, but a child survives its parent.             *)
(*                                                                          *)
(* Writers and readers have numbers, in the order they start; in task9 a    *)
(* pair has one number.  A line is <<writer, n>>, with n = 0 for END.       *)
(***************************************************************************)
EXTENDS Integers, FiniteSets, SequencesExt

CONSTANTS
    Numbers,
    LINES_COUNT, \* lines of a writer
    RestSize,    \* lines that fit the reader's array "rest"
    MaxFaults    \* bound on kills and failing calls

VARIABLES
    task,       \* 8 or 9
    wpc, rpc,   \* writers and readers
    made,       \* lines each writer has written
    value,      \* each semaphore, by the number of who made it
    named,      \* the maker of the one that has the name now, 0 when none has
    uses,       \* the one each pair of task9 has open
    file,
    first, rest,\* what each reader has read
    written, taken, \* history: lines appended, lines taken, since the file was emptied
    spoiled,    \* history: a line was lost or is handed out twice
    faults

flFile  == <<file, first, rest, written, taken, spoiled>>
flSem   == <<value, named, uses>>
flVars  == <<task, wpc, rpc, made, flSem, flFile, faults>>

END == 0
W(w, l) == wpc' = [wpc EXCEPT ![w] = l]
R(r, l) == rpc' = [rpc EXCEPT ![r] = l]

Over == {"new", "done", "failed", "killed"}
ReaderUp(r) == rpc[r] \notin Over

Init ==
    /\ task \in {8, 9}
    /\ wpc = [w \in Numbers |-> "new"] /\ rpc = [r \in Numbers |-> "new"]
    /\ made = [w \in Numbers |-> 0] /\ file = <<>>
    /\ value = [s \in Numbers |-> 0] /\ named = 0 /\ uses = [p \in Numbers |-> 0]
    /\ first = [r \in Numbers |-> <<>>] /\ rest = [r \in Numbers |-> <<>>]
    /\ written = <<>> /\ taken = <<>> /\ spoiled = FALSE /\ faults = 0

Sem(p) == IF task = 8 THEN named ELSE uses[p]
SemWait(p) == /\ value[Sem(p)] > 0 /\ value' = [value EXCEPT ![Sem(p)] = @ - 1]
              /\ UNCHANGED <<named, uses>>
SemPost(p) == value' = [value EXCEPT ![Sem(p)] = @ + 1] /\ UNCHANGED <<named, uses>>

Fault == faults < MaxFaults /\ faults' = faults + 1

-----------------------------------------------------------------------------
(* Starting *)

\* task8's producer: semget, and SETVAL by the one who made it (0 until then).
StartProducer(w) ==
    /\ task = 8 /\ UNCHANGED <<task, rpc, made, uses, flFile, faults>>
    /\ \/ /\ wpc[w] = "new" /\ \A v \in Numbers : v < w => wpc[v] # "new"
          /\ W(w, IF named = 0 THEN "setval" ELSE "next")
          /\ named' = (IF named = 0 THEN w ELSE named) /\ UNCHANGED value
       \/ /\ wpc[w] = "setval" /\ value' = [value EXCEPT ![w] = 1] /\ W(w, "next")
          /\ UNCHANGED named

\* task8's consumer leaves when there is no semaphore.
StartConsumer(r) ==
    /\ task = 8 /\ rpc[r] = "new" /\ \A q \in Numbers : q < r => rpc[q] # "new"
    /\ R(r, IF named = 0 THEN "failed" ELSE "wait")
    /\ UNCHANGED <<task, wpc, made, flSem, flFile, faults>>

\* task9's main: sem_open, an empty file, fork.
StartPair(w) ==
    /\ task = 9 /\ UNCHANGED <<task, made, first, rest, faults>>
    /\ \/ /\ wpc[w] = "new" /\ \A v \in Numbers : wpc[v] \in Over /\ (v < w => wpc[v] # "new")
          /\ W(w, "empty")
          /\ IF named # 0 THEN UNCHANGED <<value, named>>
             ELSE named' = w /\ value' = [value EXCEPT ![w] = 1]
          /\ uses' = [uses EXCEPT ![w] = named']
          /\ UNCHANGED <<rpc, file, written, taken, spoiled>>
       \/ /\ wpc[w] = "empty" /\ W(w, "fork")
          /\ file' = <<>> /\ written' = <<>> /\ taken' = <<>>
          /\ spoiled' = (\E r \in Numbers : ReaderUp(r))
          /\ UNCHANGED <<rpc, flSem>>
       \/ /\ wpc[w] = "fork" /\ W(w, "next") /\ R(w, "wait")
          /\ UNCHANGED <<flSem, file, written, taken, spoiled>>

-----------------------------------------------------------------------------
(* Writing: sem_wait, fopen "a", sem_post *)

WriterWait(w) ==
    /\ wpc[w] = "next" /\ SemWait(w)
    /\ made[w] < LINES_COUNT + (task - 8)
    /\ W(w, "append") /\ UNCHANGED <<task, rpc, made, flFile, faults>>

\* The line after the last is task9's END; fopen may fail.
AppendLine(w) ==
    LET line == <<w, IF made[w] = LINES_COUNT THEN END ELSE made[w] + 1>>
    IN /\ wpc[w] = "append" /\ W(w, "post") /\ made' = [made EXCEPT ![w] = @ + 1]
       /\ \/ file' = Append(file, line) /\ written' = Append(written, line)
             /\ UNCHANGED faults
          \/ Fault /\ UNCHANGED <<file, written>>
       /\ UNCHANGED <<task, rpc, flSem, first, rest, taken, spoiled>>

WriterPost(w) ==
    /\ wpc[w] = "post" /\ SemPost(w)
    /\ W(w, IF made[w] < LINES_COUNT + (task - 8) THEN "next"
            ELSE IF task = 8 THEN "done" ELSE "child")
    /\ UNCHANGED <<task, rpc, made, flFile, faults>>

\* wait, sem_unlink: of whatever has the name, in whatever state.
EndPair(w) ==
    /\ wpc[w] = "child" /\ ~ReaderUp(w) /\ W(w, "done") /\ named' = 0
    /\ spoiled' = (spoiled \/ value[named] # 1)
    /\ UNCHANGED <<task, rpc, made, value, uses, file, first, rest, written, taken, faults>>

-----------------------------------------------------------------------------
(* Reading *)

\* Mutant: the reader does not take the semaphore.
ReaderWait_Free(r) ==
    /\ rpc[r] = "wait" /\ R(r, "read")
    /\ UNCHANGED <<task, wpc, made, flSem, flFile, faults>>

ReaderWait(r) ==
    /\ rpc[r] = "wait" /\ SemWait(r) /\ R(r, "read")
    /\ UNCHANGED <<task, wpc, made, flFile, faults>>

Least(a, b) == IF a < b THEN a ELSE b

\* fgets and fread: what the array has no room for will be lost.  An empty file,
\* or one that fopen fails for, is tried again later.
ReadFile(r) ==
    /\ rpc[r] = "read"
    /\ \/ /\ file # <<>> /\ R(r, "truncate") /\ UNCHANGED faults
          /\ first' = [first EXCEPT ![r] = <<Head(file)>>]
          /\ rest' = [rest EXCEPT ![r] =
                        [i \in 1 .. Least(Len(file) - 1, RestSize) |-> file[i + 1]]]
          /\ spoiled' = (spoiled \/ Len(file) - 1 > RestSize)
       \/ file = <<>> /\ R(r, "post") /\ UNCHANGED <<first, rest, spoiled, faults>>
       \/ Fault /\ R(r, "post") /\ UNCHANGED <<first, rest, spoiled>>
    /\ UNCHANGED <<task, wpc, made, flSem, file, written, taken>>

\* fopen "w": when it fails the line is processed, and stays.
Truncate(r) ==
    /\ rpc[r] = "truncate"
    /\ \/ file' = <<>> /\ R(r, "write") /\ UNCHANGED <<faults, spoiled>>
       \/ Fault /\ R(r, "post") /\ spoiled' = TRUE /\ UNCHANGED file
    /\ UNCHANGED <<task, wpc, made, flSem, first, rest, written, taken>>

\* The rest goes back.
WriteRest(r) ==
    /\ rpc[r] = "write" /\ R(r, "post")
    /\ file' = file \o rest[r] /\ taken' = taken \o first[r]
    /\ UNCHANGED <<task, wpc, made, flSem, first, rest, written, spoiled, faults>>

\* task9's child leaves with END.
ReaderPost(r) ==
    /\ rpc[r] = "post" /\ SemPost(r)
    /\ R(r, IF first[r] # <<>> /\ first[r][1][2] = END THEN "done" ELSE "wait")
    /\ first' = [first EXCEPT ![r] = <<>>] /\ rest' = [rest EXCEPT ![r] = <<>>]
    /\ UNCHANGED <<task, wpc, made, file, written, taken, spoiled, faults>>

-----------------------------------------------------------------------------
Kill(p) ==
    /\ Fault /\ UNCHANGED <<task, made, flSem, flFile>>
    /\ \/ wpc[p] \notin Over /\ W(p, "killed") /\ UNCHANGED rpc
       \/ ReaderUp(p) /\ R(p, "killed") /\ UNCHANGED wpc

Step(p) == \/ StartProducer(p) \/ StartConsumer(p) \/ StartPair(p)
           \/ WriterWait(p) \/ AppendLine(p) \/ WriterPost(p) \/ EndPair(p)
           \/ ReaderWait(p) \/ ReadFile(p) \/ Truncate(p) \/ WriteRest(p) \/ ReaderPost(p)
           \/ Kill(p)

Next == \E p \in Numbers : Step(p)

Spec == Init /\ [][Next]_flVars

-----------------------------------------------------------------------------
(* Properties *)

\* Whenever the semaphore is free, whoever was killed or is still to come: the
\* lines taken and then those of the file are the lines written, in order and
\* none twice.  A parent of task9 that has ended, without a fault, has had all
\* its lines taken.  Except after a line was lost or duplicated: the rest was
\* larger than the reader's array, fopen "w" failed, a child of an earlier run was
\* still there, or the semaphore was removed after its holder had been killed.
LinesHandedOn == ~spoiled =>
    /\ named # 0 /\ value[named] = 1 => written = taken \o file
    /\ \A w \in Numbers : task = 9 /\ wpc[w] = "done" /\ faults = 0 =>
         taken = [n \in 1 .. LINES_COUNT + 1 |-> <<w, IF n > LINES_COUNT THEN END ELSE n>>]
            \/ \E v \in Numbers : v > w /\ wpc[v] # "new"
=============================================================================

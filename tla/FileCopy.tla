------------------------------- MODULE FileCopy -------------------------------
(***************************************************************************)
(* module1/task1/filecopy.c: the parent sends every file it is given to a   *)
(* child, which writes it to <name>.copy.  A message (header) and the bytes *)
(* of the file go down a data channel; a READY comes back on a second one   *)
(* before each message.  The channels are two pipes, or two FIFOs with -p.  *)
(*                                                                          *)
(* A channel is a bounded stream of units: a header is one unit, BLOCK_SIZE *)
(* units of data are a block.  write_all and read_exact move one unit at a  *)
(* time, so every split of a transfer into partial writes and reads is      *)
(* there.  Any system call that can fail may do so, and either process may  *)
(* be killed, MaxFaults times in all.                                       *)
(***************************************************************************)
EXTENDS Integers, FiniteSets, Sequences

CONSTANTS
    Names,      \* the names of files
    Bytes,      \* what a unit of data may hold
    NoFile,     \* what is under a name nobody can open as a regular file
    ArgLists,   \* the argument lists to consider
    Content,    \* what is under each name at the start
    CopyOf,     \* the name with COPY_SUFFIX appended
    Modes,      \* the values of "named" to consider
    BLOCK_SIZE, \* units in a block
    PipeCap,    \* units a channel holds before write blocks
    MaxFaults   \* bound on failed calls and kills

ASSUME FileCopyAssumption ==
    /\ \A l \in ArgLists : l \in Seq(Names) /\ l # <<>>
    /\ Content \in [Names -> Seq(Bytes) \union {NoFile}]
    /\ CopyOf \in [Names -> Names] /\ \A n \in Names : CopyOf[n] # n
    /\ \A l \in ArgLists : \A j, k \in DOMAIN l : CopyOf[l[j]] = CopyOf[l[k]] => l[j] = l[k]
    /\ Modes \subseteq BOOLEAN
    /\ BLOCK_SIZE \in Nat \ {0} /\ PipeCap \in Nat \ {0} /\ MaxFaults \in Nat

VARIABLES
    named,          \* the channels are FIFOs
    files,          \* the arguments
    pc,             \* where the parent and the child are
    fds,            \* open ends: [proc, chan, end]
    met,            \* FIFOs that have had a reader and a writer at once
    data,           \* units in the data channel
    ack,            \* READYs in the acknowledgement channel
    fifos,          \* FIFOs in the file system
    fs,             \* what is under each name
    i, size, remaining, buffer, fatal_error, had_file_error, \* the parent's
    msg, left, block, out_fd, had_error,                \* the child's
    failed,         \* history: files one of the two had an error with
    broken,         \* history: something happened that ends the whole transfer
    faults          \* failed calls and kills so far

setup    == <<named, files>>
parent   == <<i, size, remaining, buffer, fatal_error, had_file_error>>
child    == <<msg, left, block, out_fd, had_error>>
channels == <<fds, met, data, ack, fifos>>
history  == <<failed, broken>>
vars     == <<setup, pc, channels, fs, parent, child, history, faults>>

Procs == {"parent", "child"}
Chans == {"data", "ack"}
End(p, c, e) == [proc |-> p, chan |-> c, end |-> e]
AllEnds(p)   == {End(p, c, e) : c \in Chans, e \in {"r", "w"}}

\* The end of a channel each process works with.
EndOf(p, c) == End(p, c, IF (p = "parent") = (c = "data") THEN "w" ELSE "r")
Peer(p) == IF p = "parent" THEN "child" ELSE "parent"

Writers(c) == {d \in fds : d.chan = c /\ d.end = "w"}
Readers(c) == {d \in fds : d.chan = c /\ d.end = "r"}

Header(t, f, n) == [type |-> t, arg |-> f, size |-> n]
Byte(b)            == [type |-> "BYTE", arg |-> b, size |-> 0]
NoMsg              == Header("NONE", 0, 0)

Returned == {"success", "failure"}
Exited   == {"exit0", "exit1", "killed"}

Init ==
    /\ named \in Modes /\ files \in ArgLists
    /\ pc = [p \in Procs |-> IF p = "parent" THEN "start" ELSE "unborn"]
    /\ fds = {} /\ met = {} /\ data = <<>> /\ ack = 0 /\ fifos = {}
    /\ fs = Content
    /\ i = 1 /\ size = 0 /\ remaining = 0 /\ buffer = <<>>
    /\ fatal_error = FALSE /\ had_file_error = FALSE
    /\ msg = NoMsg /\ left = 0 /\ block = <<>> /\ out_fd = FALSE /\ had_error = FALSE
    /\ failed = {} /\ broken = FALSE /\ faults = 0

At(p, l)   == pc[p] = l
Goto(p, l) == pc' = [pc EXCEPT ![p] = l]
Fault      == faults < MaxFaults /\ faults' = faults + 1

\* The parent gives up: fatal_error, and on to closing its ends.
Fatal == fatal_error' = TRUE /\ Goto("parent", "close")

FileError(f) == failed' = failed \union {f} /\ UNCHANGED broken
Quiet        == UNCHANGED <<faults, history>>

\* A process that ends loses its descriptors.
Ends(p, l) == /\ Goto(p, l)
              /\ fds' = {d \in fds : d.proc # p}

-----------------------------------------------------------------------------
(* Setting the channels up *)

\* pipe() twice, or the first mkfifo.
MakeChannels ==
    /\ At("parent", "start")
    /\ IF named THEN /\ fifos' = {"data"} /\ Goto("parent", "mkfifo2")
                     /\ UNCHANGED fds
                ELSE /\ fds' = AllEnds("parent") /\ Goto("parent", "fork")
                     /\ UNCHANGED fifos
    /\ Quiet /\ UNCHANGED <<met, data, ack, parent>>

MakeAckFifo ==
    /\ At("parent", "mkfifo2")
    /\ fifos' = {"data", "ack"} /\ Goto("parent", "fork")
    /\ Quiet /\ UNCHANGED <<fds, met, data, ack, parent>>

\* pipe, mkfifo or fork fails: whatever was made is taken away again.
SetupFails ==
    /\ pc["parent"] \in {"start", "mkfifo2", "fork"}
    /\ Fault /\ broken' = TRUE
    /\ Ends("parent", "failure") /\ fifos' = {}
    /\ UNCHANGED <<met, data, ack, parent, failed>>

\* Both processes have all four ends of the pipes after fork.
Fork ==
    /\ At("parent", "fork")
    /\ pc' = [p \in Procs |-> "open_data"]
    /\ fds' = fds \union {[d EXCEPT !.proc = "child"] : d \in fds}
    /\ Quiet /\ UNCHANGED <<met, data, ack, fifos, parent>>

\* Where a process goes when both its ends are open.
Ready(p) == IF p = "parent" THEN "next" ELSE "ready"

\* Mutant: the two ends a process does not use stay open.
CloseUnused_KeepsAll(p) ==
    /\ At(p, "open_data") /\ ~named
    /\ Goto(p, Ready(p))
    /\ Quiet /\ UNCHANGED <<channels, parent>>

\* Pipes: each process closes the two ends it does not use.
CloseUnused(p) ==
    /\ At(p, "open_data") /\ ~named
    /\ fds' = {d \in fds : d.proc = p => d \in {EndOf(p, "data"), EndOf(p, "ack")}}
    /\ Goto(p, Ready(p))
    /\ Quiet /\ UNCHANGED <<met, data, ack, fifos, parent>>

Opened(p, c) == IF c = "data" THEN "open_ack" ELSE Ready(p)
OpenAt(c) == IF c = "data" THEN "open_data" ELSE "open_ack"
WaitAt(c) == IF c = "data" THEN "wait_data" ELSE "wait_ack"

\* FIFOs: open waits until the other side has opened its end too.
OpenFifo(p, c) ==
    /\ At(p, OpenAt(c)) /\ named
    /\ fds' = fds \union {EndOf(p, c)}
    /\ IF EndOf(Peer(p), c) \in fds
       THEN met' = met \union {c} /\ Goto(p, Opened(p, c))
       ELSE UNCHANGED met /\ Goto(p, WaitAt(c))
    /\ Quiet /\ UNCHANGED <<data, ack, fifos, parent>>

OpenReturns(p, c) ==
    /\ At(p, WaitAt(c)) /\ c \in met
    /\ Goto(p, Opened(p, c))
    /\ Quiet /\ UNCHANGED <<channels, parent>>

\* open fails in the child: it exits.
ChildOpenFails(c) ==
    /\ At("child", OpenAt(c)) /\ named
    /\ Fault /\ broken' = TRUE
    /\ Ends("child", "exit1")
    /\ UNCHANGED <<met, data, ack, fifos, parent, failed>>

\* open fails in the parent: it kills the child, waits for it, unlinks.
ParentOpenFails(c) ==
    /\ At("parent", OpenAt(c)) /\ named
    /\ Fault /\ broken' = TRUE
    /\ pc' = [pc EXCEPT !["parent"] = "failure",
                        !["child"] = IF @ \in Exited THEN @ ELSE "killed"]
    /\ fds' = {} /\ fifos' = {}
    /\ UNCHANGED <<met, data, ack, parent, failed>>

-----------------------------------------------------------------------------
(* The parent: parent_send_file for each argument, then the end message *)

\* Mutant: a file that cannot be opened ends the transfer.
SkipFile_Fatal ==
    /\ At("parent", "next") /\ i <= Len(files)
    /\ \/ fs[files[i]] = NoFile /\ UNCHANGED faults
       \/ Fault
    /\ Fatal /\ FileError(files[i])
    /\ UNCHANGED <<channels, i, size, remaining, buffer, had_file_error>>

\* The argument cannot be opened or is no regular file: on to the next one.
SkipFile ==
    /\ At("parent", "next") /\ i <= Len(files)
    /\ \/ fs[files[i]] = NoFile /\ UNCHANGED faults
       \/ Fault
    /\ had_file_error' = TRUE /\ i' = i + 1
    /\ FileError(files[i])
    /\ UNCHANGED <<pc, channels, size, remaining, buffer, fatal_error>>

\* open and fstat: the size announced is the size at this moment.
OpenFile ==
    /\ At("parent", "next") /\ i <= Len(files)
    /\ fs[files[i]] # NoFile
    /\ size' = Len(fs[files[i]])
    /\ Goto("parent", "wait_ready")
    /\ Quiet /\ UNCHANGED <<channels, i, remaining, buffer, fatal_error, had_file_error>>

\* All files are done: the last READY, before MSG_END.
NoMoreFiles ==
    /\ At("parent", "next") /\ i > Len(files)
    /\ Goto("parent", "final_ready")
    /\ Quiet /\ UNCHANGED <<channels, parent>>

\* wait_ready: a READY, or end of file because the child is gone.
wait_ready(at, l) ==
    /\ At("parent", at)
    /\ \/ ack > 0 /\ ack' = ack - 1 /\ Goto("parent", l) /\ UNCHANGED fatal_error
       \/ ack = 0 /\ Writers("ack") = {} /\ Fatal /\ UNCHANGED ack
    /\ Quiet /\ UNCHANGED <<fds, met, data, fifos, i, size, remaining, buffer, had_file_error>>

\* write_all of one unit: it goes in, or the child is gone (EPIPE).
SendUnit(u, l) ==
    \/ /\ Readers("data") # {} /\ Len(data) < PipeCap
       /\ data' = Append(data, u) /\ Goto("parent", l) /\ UNCHANGED fatal_error
    \/ Readers("data") = {} /\ Fatal /\ UNCHANGED data

SendHeader ==
    /\ At("parent", "header")
    /\ SendUnit(Header("FILE", files[i], size), "read")
    /\ remaining' = size
    /\ Quiet /\ UNCHANGED <<fds, met, ack, fifos, i, size, buffer, had_file_error>>

Least(a, b) == IF a < b THEN a ELSE b

\* The next block of the file; nothing there is an unexpected end of file.
ReadBlock ==
    LET f   == files[i]
        pos == size - remaining
        got == SubSeq(fs[f], pos + 1,
                      Least(pos + Least(BLOCK_SIZE, remaining), Len(fs[f])))
    IN /\ At("parent", "read") /\ remaining > 0
       /\ IF got = <<>>
          THEN Fatal /\ broken' = TRUE /\ UNCHANGED <<buffer, remaining>>
          ELSE /\ buffer' = got /\ remaining' = remaining - Len(got)
               /\ Goto("parent", "write") /\ UNCHANGED <<fatal_error, broken>>
       /\ UNCHANGED <<channels, i, size, had_file_error, failed, faults>>

ReadFails ==
    /\ At("parent", "read") /\ remaining > 0
    /\ Fault /\ broken' = TRUE
    /\ Fatal
    /\ UNCHANGED <<channels, i, size, remaining, buffer, had_file_error, failed>>

SendData ==
    /\ At("parent", "write")
    /\ SendUnit(Byte(Head(buffer)), IF Len(buffer) = 1 THEN "read" ELSE "write")
    /\ buffer' = Tail(buffer)
    /\ Quiet /\ UNCHANGED <<fds, met, ack, fifos, i, size, remaining, had_file_error>>

FileSent ==
    /\ At("parent", "read") /\ remaining = 0
    /\ i' = i + 1 /\ Goto("parent", "next")
    /\ Quiet /\ UNCHANGED <<channels, size, remaining, buffer, fatal_error, had_file_error>>

SendEnd ==
    /\ At("parent", "end")
    /\ SendUnit(Header("END", 0, 0), "close")
    /\ Quiet /\ UNCHANGED <<fds, met, ack, fifos, i, size, remaining, buffer, had_file_error>>

CloseEnds ==
    /\ At("parent", "close")
    /\ Ends("parent", "waitpid")
    /\ Quiet /\ UNCHANGED <<met, data, ack, fifos, parent>>

\* Mutant: only a child that was killed counts as an error.
WaitPid_IgnoresStatus ==
    /\ At("parent", "waitpid") /\ pc["child"] \in Exited
    /\ fatal_error' = (fatal_error \/ pc["child"] = "killed")
    /\ Goto("parent", "unlink")
    /\ Quiet /\ UNCHANGED <<channels, i, size, remaining, buffer, had_file_error>>

WaitPid ==
    /\ At("parent", "waitpid") /\ pc["child"] \in Exited
    /\ fatal_error' = (fatal_error \/ pc["child"] # "exit0")
    /\ Goto("parent", "unlink")
    /\ Quiet /\ UNCHANGED <<channels, i, size, remaining, buffer, had_file_error>>

Status == IF fatal_error \/ had_file_error THEN "failure" ELSE "success"

\* Mutant: the acknowledgement FIFO is left behind.
Finish_KeepsAck ==
    /\ At("parent", "unlink")
    /\ fifos' = fifos \ {"data"} /\ Goto("parent", Status)
    /\ Quiet /\ UNCHANGED <<fds, met, data, ack, parent>>

Finish ==
    /\ At("parent", "unlink")
    /\ fifos' = {} /\ Goto("parent", Status)
    /\ Quiet /\ UNCHANGED <<fds, met, data, ack, parent>>

-----------------------------------------------------------------------------
(* The child: child_loop *)

SendReady ==
    /\ At("child", "ready")
    /\ IF Readers("ack") # {}
       THEN ack' = ack + 1 /\ Goto("child", "header") /\ UNCHANGED fds
       ELSE Ends("child", "exit1") /\ UNCHANGED ack
    /\ Quiet /\ UNCHANGED <<met, data, fs, child>>

\* read_exact of a header; END is the way out.
ReadHeader ==
    /\ At("child", "header") /\ data # <<>>
    /\ msg' = Head(data) /\ data' = Tail(data)
    /\ left' = Head(data).size
    /\ IF Head(data).type = "END"
       THEN Ends("child", IF had_error THEN "exit1" ELSE "exit0")
       ELSE Goto("child", "create") /\ UNCHANGED fds
    /\ Quiet /\ UNCHANGED <<met, ack, fs, block, out_fd, had_error>>

\* End of file on the data channel, between messages or inside one.
EndOfData ==
    /\ pc["child"] \in {"header", "data"}
    /\ At("child", "data") => left > 0
    /\ data = <<>> /\ Writers("data") = {}
    /\ Ends("child", "exit1")
    /\ Quiet /\ UNCHANGED <<met, data, ack, fs, child>>

Copy == CopyOf[msg.arg]

Create ==
    /\ At("child", "create")
    /\ fs' = [fs EXCEPT ![Copy] = <<>>] /\ out_fd' = TRUE
    /\ Goto("child", "data")
    /\ Quiet /\ UNCHANGED <<channels, msg, left, block, had_error>>

\* Mutant: the data of a file that cannot be created is not read.
CreateFails_NoDrain ==
    /\ At("child", "create")
    /\ Fault /\ FileError(msg.arg)
    /\ had_error' = TRUE
    /\ Goto("child", "ready")
    /\ UNCHANGED <<channels, fs, msg, left, block, out_fd>>

\* The data of a file that cannot be created is read all the same.
CreateFails ==
    /\ At("child", "create")
    /\ Fault /\ FileError(msg.arg)
    /\ had_error' = TRUE
    /\ Goto("child", "data")
    /\ UNCHANGED <<channels, fs, msg, left, block, out_fd>>

\* read_exact of a chunk, unit by unit.
ReadData ==
    /\ At("child", "data") /\ left > 0 /\ data # <<>>
    /\ block' = Append(block, Head(data).arg) /\ data' = Tail(data)
    /\ Goto("child", IF Len(block') = Least(BLOCK_SIZE, left) THEN "write" ELSE "data")
    /\ Quiet /\ UNCHANGED <<fds, met, ack, fs, msg, left, out_fd, had_error>>

\* Mutant: a whole block is subtracted, however short the last one was.
ChunkDone_FullBlock == left' = left - BLOCK_SIZE /\ block' = <<>>

ChunkDone == left' = left - Len(block) /\ block' = <<>>

\* The chunk goes to the copy, or nowhere after an earlier error.
WriteBlock ==
    /\ At("child", "write")
    /\ fs' = IF out_fd THEN [fs EXCEPT ![Copy] = @ \o block] ELSE fs
    /\ ChunkDone
    /\ Goto("child", "data")
    /\ Quiet /\ UNCHANGED <<channels, msg, out_fd, had_error>>

WriteFails ==
    /\ At("child", "write") /\ out_fd
    /\ Fault /\ FileError(msg.arg)
    /\ out_fd' = FALSE /\ had_error' = TRUE
    /\ ChunkDone
    /\ Goto("child", "data")
    /\ UNCHANGED <<channels, fs, msg>>

CloseCopy ==
    /\ At("child", "data") /\ left = 0
    /\ out_fd' = FALSE /\ Goto("child", "ready")
    /\ \/ Quiet /\ UNCHANGED had_error
       \/ out_fd /\ Fault /\ FileError(msg.arg) /\ had_error' = TRUE
    /\ UNCHANGED <<channels, fs, msg, left, block>>

-----------------------------------------------------------------------------
Alive(p) == pc[p] \notin Returned \union Exited \union {"unborn"}

Kill(p) ==
    /\ Alive(p)
    /\ Fault /\ broken' = TRUE
    /\ Ends(p, "killed")
    /\ UNCHANGED <<setup, met, data, ack, fifos, fs, parent, child, failed>>

Opening(p) == CloseUnused(p) \/ \E c \in Chans : OpenFifo(p, c) \/ OpenReturns(p, c)

ParentStep ==
    /\ \/ MakeChannels \/ MakeAckFifo \/ SetupFails \/ Fork \/ Opening("parent")
       \/ \E c \in Chans : ParentOpenFails(c)
       \/ SkipFile \/ OpenFile \/ NoMoreFiles
       \/ wait_ready("wait_ready", "header") \/ wait_ready("final_ready", "end")
       \/ SendHeader \/ ReadBlock \/ ReadFails \/ SendData \/ FileSent \/ SendEnd
       \/ CloseEnds \/ WaitPid \/ Finish
    /\ UNCHANGED <<setup, fs, child>>

child_loop ==
    /\ \/ SendReady \/ ReadHeader \/ EndOfData \/ Create \/ CreateFails
       \/ ReadData \/ WriteBlock \/ WriteFails \/ CloseCopy
    /\ UNCHANGED <<setup, fifos, parent>>

ChildStep ==
    \/ /\ Opening("child") \/ \E c \in Chans : ChildOpenFails(c)
       /\ UNCHANGED <<setup, fs, child>>
    \/ child_loop

Next == ParentStep \/ ChildStep \/ \E p \in Procs : Kill(p)

Spec == Init /\ [][Next]_vars

\* Each process keeps running.
FairSpec == Spec /\ WF_vars(ParentStep) /\ WF_vars(ChildStep)

-----------------------------------------------------------------------------
(* Properties *)

ParentPcs == {"start", "mkfifo2", "fork", "open_data", "open_ack", "wait_data",
              "wait_ack", "next", "wait_ready", "header", "read", "write",
              "final_ready", "end", "close", "waitpid", "unlink", "killed"}
             \union Returned
ChildPcs  == {"unborn", "open_data", "open_ack", "wait_data", "wait_ack", "ready",
              "header", "create", "data", "write"} \union Exited

\* Everything stays in its range: the counts of the two loops never go below
\* zero, and no transfer is longer than the block it is made of.
TypeOK ==
    /\ named \in BOOLEAN /\ files \in ArgLists
    /\ pc["parent"] \in ParentPcs /\ pc["child"] \in ChildPcs
    /\ fds \subseteq AllEnds("parent") \union AllEnds("child")
    /\ met \subseteq Chans /\ fifos \subseteq Chans
    /\ Len(data) <= PipeCap /\ ack \in 0 .. PipeCap
    /\ i \in 1 .. Len(files) + 1
    /\ remaining \in Nat /\ size \in Nat /\ Len(buffer) <= BLOCK_SIZE
    /\ left \in Nat /\ Len(block) <= BLOCK_SIZE
    /\ fatal_error \in BOOLEAN /\ had_file_error \in BOOLEAN
    /\ out_fd \in BOOLEAN /\ had_error \in BOOLEAN
    /\ failed \subseteq Names /\ broken \in BOOLEAN /\ faults \in 0 .. MaxFaults

\* The two sides agree on where messages begin, whatever went wrong with the
\* files before: a child that is about to read a header finds one, and what it
\* still has to read of a file is data of that file.  A READY stands for an empty
\* channel and a child that waits for a header; there is never more than one.
ChildInStep ==
    /\ At("child", "header") /\ data # <<>> => Head(data).type # "BYTE"
    /\ pc["child"] \in {"create", "data", "write"} =>
          \A k \in 1 .. Least(left - Len(block), Len(data)) : data[k].type = "BYTE"
    /\ ack <= 1
    /\ ack = 1 => data = <<>> /\ pc["child"] \in {"header"} \union Exited

\* Nothing the program writes is also one of its inputs.
Apart(f) == \A k \in DOMAIN files : CopyOf[files[k]] # f

Copied(f) == fs[f] # NoFile /\ fs[CopyOf[f]] = fs[f]

FilesSet == {files[k] : k \in DOMAIN files}

\* An error with one file, on either side, does not keep the others from being
\* copied ("other files must still be copied", test.sh Test 3).
OthersStillCopied ==
    pc["parent"] \in Returned /\ ~broken =>
        \A f \in FilesSet \ failed : Apart(f) => Copied(f)

\* The exit status is the truth: success when every file was copied, failure
\* only when something did go wrong.
StatusTellsTruth ==
    /\ At("parent", "success") =>
          failed = {} /\ \A f \in FilesSet : Apart(f) => Copied(f)
    /\ At("parent", "failure") => failed # {} \/ broken

\* Whichever way the program returns, it leaves no FIFO behind (test.sh Test 2).
FifosRemoved == pc["parent"] \in Returned => fifos = {}

\* What test.sh checks with check_copy after a success: every argument's copy
\* is equal to it, the arguments that are copies of others included.
AllCopied == At("parent", "success") => \A f \in FilesSet : Copied(f)

\* A process whose peer died before the FIFO was open on both sides.
StuckInOpen ==
    \E p \in Procs : pc[p] \in {"wait_data", "wait_ack"} /\ ~Alive(Peer(p))

\* Both processes end, however one of them dies and whichever call fails; the
\* open of a FIFO nobody else will open is the only place to hang.
EverythingEnds ==
    <>(\A p \in Procs : ~Alive(p)) \/ <>StuckInOpen
=============================================================================

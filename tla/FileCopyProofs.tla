---------------------------- MODULE FileCopyProofs ----------------------------
(***************************************************************************)
(* Safety of FileCopy for all files, argument lists, block and channel      *)
(* sizes, with or without FIFOs, and any number of failed calls and kills:  *)
(* first what the processes and the channels may do, then that the exit     *)
(* status is the truth and that every file nothing went wrong with is equal *)
(* to its copy.                                                             *)
(***************************************************************************)
EXTENDS FileCopy, TLAPS, SequenceTheorems

\* The units of the data channel.
Headers   == [type : {"FILE"}, arg : Names, size : Nat]
             \union [type : {"END"}, arg : {0}, size : {0}]
DataUnits == [type : {"BYTE"}, arg : Bytes, size : {0}]
Units     == Headers \union DataUnits

\* Before the parent has its ends of both channels.
Early == {"start", "mkfifo2", "fork", "open_data", "open_ack", "wait_data", "wait_ack"}

\* The parent sends nothing more.
Over == {"close", "waitpid", "unlink", "killed"} \union Returned

\* The child has not asked for a message yet.
NotYet == {"unborn", "open_data", "open_ack", "wait_data", "wait_ack", "ready"}

\* The child is inside a message.
Inside == {"create", "data", "write"}

\* Units of the announced file the parent has not put into the channel yet.
Owed == IF At("parent", "read") THEN remaining
        ELSE IF At("parent", "write") THEN remaining + Len(buffer) ELSE 0

\* The parent holds a READY: it is about to send a message or in the middle of one.
Granted == pc["parent"] \in {"header", "end"} \/ Owed > 0

\* Of n units announced, k are in the channel and the parent owes the others,
\* unless it has given up.
Accounted(n, k) == IF pc["parent"] \in Over THEN k <= n ELSE n = k + Owed

PcType ==
    /\ pc \in [Procs -> ParentPcs \union ChildPcs]
    /\ pc["parent"] \in ParentPcs /\ pc["child"] \in ChildPcs

ChannelType ==
    /\ fds \subseteq AllEnds("parent") \union AllEnds("child")
    /\ met \subseteq Chans /\ fifos \subseteq Chans
    /\ data \in Seq(Units) /\ Len(data) <= PipeCap /\ ack \in 0 .. PipeCap

ParentType ==
    /\ files \in ArgLists /\ files \in Seq(Names)
    /\ i \in 1 .. Len(files) + 1 /\ remaining \in Nat /\ size \in Nat
    /\ buffer \in Seq(Bytes) /\ Len(buffer) <= BLOCK_SIZE

ChildType ==
    /\ fs \in [Names -> Seq(Bytes) \union {NoFile}]
    /\ left \in Nat /\ block \in Seq(Bytes) /\ Len(block) <= BLOCK_SIZE

HistoryType == failed \subseteq Names /\ faults \in 0 .. MaxFaults

FlagType ==
    /\ named \in BOOLEAN /\ fatal_error \in BOOLEAN /\ had_file_error \in BOOLEAN
    /\ out_fd \in BOOLEAN /\ had_error \in BOOLEAN /\ broken \in BOOLEAN

\* TypeOK, and what the sequences and the file system hold.
TypeInv == PcType /\ ChannelType /\ ParentType /\ ChildType /\ HistoryType /\ FlagType

\* The parent works on an argument it could open.
ParentInv ==
    /\ pc["parent"] \in {"wait_ready", "header", "read", "write"} =>
          i <= Len(files) /\ fs[files[i]] \in Seq(Bytes)
    /\ pc["parent"] \in {"read", "write"} => remaining <= size
    /\ At("parent", "write") => buffer # <<>>
    /\ pc["parent"] \in {"start", "mkfifo2", "fork"} => At("child", "unborn")
    /\ FifosRemoved

\* The chunk the child is reading, and the copy it goes to.
ChunkInv ==
    /\ pc["child"] \notin {"data", "write"} \union Exited => ~out_fd /\ block = <<>>
    /\ pc["child"] \in Inside => msg.arg \in Names
    /\ At("child", "data") => block = <<>> \/ Len(block) < Least(BLOCK_SIZE, left)
    /\ At("child", "write") => Len(block) = Least(BLOCK_SIZE, left)
    /\ pc["child"] \in {"data", "write"} /\ out_fd => fs[Copy] \in Seq(Bytes)

\* A READY is on its way only while nothing else is, and there is only one.
ReadyInv ==
    /\ ack \in {0, 1}
    /\ ack = 1 => data = <<>> /\ pc["child"] \in {"header"} \union Exited /\ ~Granted
    /\ pc["child"] \in NotYet => data = <<>> /\ ack = 0 /\ ~Granted

\* A child that waits for a header finds nothing, or one whole message so far.
BetweenInv ==
    At("child", "header") /\ ack = 0 =>
        \/ data = <<>> /\ pc["parent"] \in {"header", "end"} \union Over
        \/ /\ data # <<>> /\ Head(data).type # "BYTE"
           /\ \A k \in 2 .. Len(data) : data[k].type = "BYTE"
           /\ pc["parent"] \notin {"header", "end"} \union Early
           /\ Accounted(Head(data).size, Len(data) - 1)

\* Inside a message the channel holds nothing but the rest of it.
InsideInv ==
    pc["child"] \in Inside =>
        /\ ack = 0 /\ pc["parent"] \notin {"header", "end"} \union Early
        /\ \A k \in 1 .. Len(data) : data[k].type = "BYTE"
        /\ Accounted(left - Len(block), Len(data))

Protocol == ReadyInv /\ BetweenInv /\ InsideInv

\* The inductive invariant.
IndInv == TypeInv /\ ParentInv /\ ChunkInv /\ Protocol

-----------------------------------------------------------------------------
(* Facts about the operators *)

\* The first element of a sequence and the rest.
LEMMA TakeFirst ==
  ASSUME NEW S, NEW s \in Seq(S), s # <<>>
  PROVE  /\ Len(s) >= 1 /\ Head(s) \in S /\ Head(s) = s[1]
         /\ Tail(s) \in Seq(S) /\ Len(Tail(s)) = Len(s) - 1
         /\ \A k \in 1 .. Len(s) - 1 : Tail(s)[k] = s[k + 1]
BY HeadTailProperties, EmptySeq, LenProperties

\* One more element at the end.
LEMMA PutLast ==
  ASSUME NEW S, NEW s \in Seq(S), NEW e \in S
  PROVE  /\ Append(s, e) \in Seq(S) /\ Len(Append(s, e)) = Len(s) + 1
         /\ \A k \in 1 .. Len(s) : Append(s, e)[k] = s[k]
         /\ Append(s, e)[Len(s) + 1] = e
         /\ Append(s, e) # <<>>
BY AppendProperties

\* A sequence is empty when its length is zero.
LEMMA EmptyLen ==
  ASSUME NEW S, NEW s \in Seq(S)
  PROVE  Len(s) \in Nat /\ (s = <<>> <=> Len(s) = 0)
BY EmptySeq, LenProperties

\* A unit of the channel is a header or a byte, and its type tells which.
LEMMA UnitTypes ==
  ASSUME NEW u \in Units
  PROVE  /\ u.size \in Nat
         /\ u.type = "FILE" => u.arg \in Names
         /\ u.type = "BYTE" => u.arg \in Bytes
         /\ u.type = "END" => u.size = 0
         /\ u.type \in {"FILE", "END", "BYTE"}
BY DEF Units, Headers, DataUnits

-----------------------------------------------------------------------------
(* Steps that leave the channels alone *)

\* The parent goes on, or gives up, without sending or receiving.
LEMMA ParentMoves ==
  ASSUME TypeInv, Protocol, NEW l,
         pc' = [pc EXCEPT !["parent"] = l], UNCHANGED <<data, ack, left, block>>,
         \/ l \in Over
         \/ /\ Owed' = Owed
            /\ pc["parent"] \notin {"header", "end"} \union Over
            /\ l \notin {"header", "end"} /\ (l \in Early => pc["parent"] \in Early)
  PROVE  Protocol'
<1>1. pc'["parent"] = l /\ pc'["child"] = pc["child"]
  BY DEF TypeInv, PcType, Procs
<1>2. Granted' => Granted
  BY <1>1 DEF Granted, Owed, At, Over, Returned
<1>3. Owed \in Nat
  BY EmptyLen DEF Owed, At, TypeInv, ParentType
<1>4. pc["parent"] \in Over => l \in Over
  OBVIOUS
<1>5. ReadyInv'
  BY <1>1, <1>2 DEF Protocol, ReadyInv
<1>6. data # <<>> => Head(data).size \in Int /\ Len(data) - 1 \in Int
  BY TakeFirst, UnitTypes DEF TypeInv, ChannelType
<1>7. BetweenInv'
  BY <1>1, <1>3, <1>4, <1>6 DEF Protocol, BetweenInv, Accounted, At, Over, Early, Returned
<1>8. left - Len(block) \in Int /\ Len(data) \in Int
  BY EmptyLen DEF TypeInv, ChannelType, ChildType
<1>9. InsideInv'
  BY <1>1, <1>3, <1>4, <1>8 DEF Protocol, InsideInv, Accounted, Over, Early, Returned
<1>. QED
  BY <1>5, <1>7, <1>9 DEF Protocol

\* The child ends.
LEMMA ChildDies ==
  ASSUME TypeInv, Protocol, NEW l \in Exited,
         pc' = [pc EXCEPT !["child"] = l], UNCHANGED <<data, ack, remaining, buffer>>
  PROVE  Protocol'
<1>1. pc'["parent"] = pc["parent"] /\ pc'["child"] = l
  BY DEF TypeInv, PcType, Procs
<1>2. Granted' <=> Granted
  BY <1>1 DEF Granted, Owed, At
<1>. QED
  BY <1>1, <1>2 DEF Protocol, ReadyInv, BetweenInv, InsideInv, At, Exited, NotYet, Inside

\* The child opens its ends, before its first message.
LEMMA ChildOpens ==
  ASSUME TypeInv, Protocol, NEW l \in NotYet, pc["child"] \in NotYet,
         pc' = [pc EXCEPT !["child"] = l], UNCHANGED <<data, ack, remaining, buffer>>
  PROVE  Protocol'
<1>1. pc'["parent"] = pc["parent"] /\ pc'["child"] = l
  BY DEF TypeInv, PcType, Procs
<1>2. Granted' <=> Granted
  BY <1>1 DEF Granted, Owed, At
<1>. QED
  BY <1>1, <1>2 DEF Protocol, ReadyInv, BetweenInv, InsideInv, At, NotYet, Inside

\* What keeps the types of variables a step leaves alone.
LEMMA TypesStay ==
  ASSUME TypeInv
  PROVE  /\ UNCHANGED pc => PcType'
         /\ UNCHANGED channels => ChannelType'
         /\ UNCHANGED <<files, i, remaining, size, buffer>> => ParentType'
         /\ UNCHANGED <<fs, left, block>> => ChildType'
         /\ UNCHANGED <<failed, faults>> => HistoryType'
         /\ UNCHANGED <<named, fatal_error, had_file_error, out_fd, had_error, broken>>
              => FlagType'
BY DEF TypeInv, PcType, ChannelType, ParentType, ChildType, HistoryType, FlagType,
       channels

\* One process goes from one place to another.
LEMMA PcMoves ==
  ASSUME TypeInv, NEW p \in Procs, NEW l, pc' = [pc EXCEPT ![p] = l]
  PROVE  /\ pc'[p] = l /\ \A q \in Procs : q # p => pc'[q] = pc[q]
         /\ (p = "parent" /\ l \in ParentPcs) \/ (p = "child" /\ l \in ChildPcs) => PcType'
BY DEF TypeInv, PcType, Procs

\* The ends of channels a process may have.
LEMMA EndsTyped ==
  /\ \A p \in Procs, c \in Chans : EndOf(p, c) \in AllEnds(p)
  /\ \A d \in AllEnds("parent") : [d EXCEPT !.proc = "child"] \in AllEnds("child")
  /\ \A d \in AllEnds("child")  : [d EXCEPT !.proc = "child"] \in AllEnds("child")
BY DEF EndOf, AllEnds, End, Procs, Chans

\* A step of the parent does not touch the child's chunk.
LEMMA ChunkStays ==
  ASSUME ChunkInv, pc'["child"] = pc["child"], UNCHANGED <<fs, child>>
  PROVE  ChunkInv'
BY DEF ChunkInv, child, At, Copy

-----------------------------------------------------------------------------
(* The initial states *)

LEMMA InitInv == Init => IndInv
<1>. SUFFICES ASSUME Init PROVE IndInv
  OBVIOUS
<1>1. TypeInv
  <2>1. PcType
    BY DEF Init, PcType, Procs, ParentPcs, ChildPcs
  <2>2. ChannelType
    BY FileCopyAssumption, EmptySeq DEF Init, ChannelType
  <2>3. ParentType
    BY FileCopyAssumption, EmptySeq DEF Init, ParentType
  <2>4. ChildType
    BY FileCopyAssumption, EmptySeq DEF Init, ChildType
  <2>5. HistoryType
    BY FileCopyAssumption DEF Init, HistoryType
  <2>6. FlagType
    BY FileCopyAssumption DEF Init, FlagType
  <2>. QED
    BY <2>1, <2>2, <2>3, <2>4, <2>5, <2>6 DEF TypeInv
<1>2. ParentInv
  BY DEF Init, ParentInv, At, Procs, FifosRemoved
<1>3. ChunkInv
  BY DEF Init, ChunkInv, At, Procs, Exited, Inside
<1>4. Protocol
  BY DEF Init, Protocol, ReadyInv, BetweenInv, InsideInv, Granted, Owed, At, Procs, Exited, Inside
<1>. QED
  BY <1>1, <1>2, <1>3, <1>4 DEF IndInv

\* Everything a step of the parent has to show when it neither sends nor receives.
LEMMA ParentStays ==
  ASSUME IndInv, NEW l \in ParentPcs,
         pc' = [pc EXCEPT !["parent"] = l], UNCHANGED <<data, ack, fs, child>>,
         fds' \subseteq AllEnds("parent") \union AllEnds("child"),
         met' \subseteq Chans, fifos' \subseteq Chans,
         ParentType', HistoryType', FlagType', ParentInv',
         \/ l \in Over
         \/ /\ Owed' = Owed
            /\ pc["parent"] \notin {"header", "end"} \union Over
            /\ l \notin {"header", "end"} /\ (l \in Early => pc["parent"] \in Early)
  PROVE  IndInv'
<1>1. PcType' /\ pc'["child"] = pc["child"]
  BY PcMoves DEF IndInv, Procs
<1>2. ChannelType'
  BY DEF IndInv, TypeInv, ChannelType
<1>3. ChildType'
  BY TypesStay DEF IndInv, child
<1>4. ChunkInv'
  BY <1>1, ChunkStays DEF IndInv
<1>5. Protocol'
  BY ParentMoves DEF IndInv, child
<1>. QED
  BY <1>1, <1>2, <1>3, <1>4, <1>5 DEF IndInv, TypeInv

-----------------------------------------------------------------------------
(* Setting the channels up *)

LEMMA MakeChannelsStep ==
  ASSUME IndInv, MakeChannels, UNCHANGED <<setup, fs, child>>
  PROVE  IndInv'
<1>. USE DEF MakeChannels, Goto, Quiet, parent, child, setup, history, IndInv
<1>0. PICK l \in {"mkfifo2", "fork"} : pc' = [pc EXCEPT !["parent"] = l]
  OBVIOUS
<1>1. pc'["parent"] = l /\ pc'["child"] = pc["child"]
  BY <1>0, PcMoves DEF Procs
<1>2. ParentType' /\ HistoryType' /\ FlagType'
  BY TypesStay
<1>3. ParentInv'
  BY <1>1 DEF ParentInv, At, FifosRemoved, Returned
<1>4. Owed' = Owed /\ pc["parent"] = "start"
  BY <1>1 DEF Owed, At
<1>5. fds' \subseteq AllEnds("parent") \union AllEnds("child") /\ fifos' \subseteq Chans
      /\ met' \subseteq Chans
  BY DEF TypeInv, ChannelType, Chans
<1>. QED
  BY <1>0, <1>2, <1>3, <1>4, <1>5, ParentStays DEF Early, Over, Returned, ParentPcs

LEMMA MakeAckFifoStep ==
  ASSUME IndInv, MakeAckFifo, UNCHANGED <<setup, fs, child>>
  PROVE  IndInv'
<1>. USE DEF MakeAckFifo, Goto, Quiet, parent, child, setup, history, IndInv
<1>1. pc'["parent"] = "fork" /\ pc'["child"] = pc["child"]
  BY PcMoves DEF Procs
<1>2. ParentType' /\ HistoryType' /\ FlagType'
  BY TypesStay
<1>3. ParentInv'
  BY <1>1 DEF ParentInv, At, FifosRemoved, Returned
<1>4. Owed' = Owed /\ pc["parent"] = "mkfifo2"
  BY <1>1 DEF Owed, At
<1>5. fds' \subseteq AllEnds("parent") \union AllEnds("child") /\ fifos' \subseteq Chans
      /\ met' \subseteq Chans
  BY DEF TypeInv, ChannelType, Chans
<1>. QED
  BY <1>2, <1>3, <1>4, <1>5, ParentStays DEF Early, Over, Returned, ParentPcs

LEMMA SetupFailsStep ==
  ASSUME IndInv, SetupFails, UNCHANGED <<setup, fs, child>>
  PROVE  IndInv'
<1>. USE DEF SetupFails, Ends, Goto, Fault, parent, child, setup, IndInv
<1>1. pc'["parent"] = "failure" /\ pc'["child"] = pc["child"]
  BY PcMoves DEF Procs
<1>2. ParentType' /\ FlagType'
  BY TypesStay DEF TypeInv, FlagType
<1>3. HistoryType'
  BY FileCopyAssumption DEF TypeInv, HistoryType
<1>4. ParentInv'
  BY <1>1 DEF ParentInv, At, FifosRemoved, Returned
<1>5. fds' \subseteq AllEnds("parent") \union AllEnds("child") /\ fifos' \subseteq Chans
      /\ met' \subseteq Chans
  BY DEF TypeInv, ChannelType
<1>. QED
  BY <1>2, <1>3, <1>4, <1>5, ParentStays DEF Over, Returned, ParentPcs

LEMMA ForkStep ==
  ASSUME IndInv, Fork, UNCHANGED <<setup, fs, child>>
  PROVE  IndInv'
<1>. USE DEF Fork, Quiet, parent, child, setup, history, IndInv
<1>1. /\ pc' \in [Procs -> {"open_data"}]
      /\ pc'["parent"] = "open_data" /\ pc'["child"] = "open_data"
      /\ pc["parent"] = "fork" /\ pc["child"] = "unborn"
  BY DEF Procs, ParentInv, At
<1>2. ParentType' /\ HistoryType' /\ FlagType' /\ ChildType'
  BY TypesStay
<1>3. PcType'
  BY <1>1 DEF PcType, ParentPcs, ChildPcs
<1>4. ChannelType'
  BY EndsTyped DEF TypeInv, ChannelType
<1>5. ParentInv'
  BY <1>1 DEF ParentInv, At, FifosRemoved, Returned
<1>6. ChunkInv'
  BY <1>1 DEF ChunkInv, At, Exited, Inside
<1>7. Protocol'
  BY <1>1 DEF Protocol, ReadyInv, BetweenInv, InsideInv, Granted, Owed, At, NotYet, Inside
<1>. QED
  BY <1>2, <1>3, <1>4, <1>5, <1>6, <1>7 DEF TypeInv

LEMMA ParentCloseUnusedStep ==
  ASSUME IndInv, CloseUnused("parent"), UNCHANGED <<setup, fs, child>>
  PROVE  IndInv'
<1>. USE DEF CloseUnused, Goto, Quiet, parent, child, setup, history, IndInv, Ready
<1>1. pc'["parent"] = "next" /\ pc'["child"] = pc["child"]
  BY PcMoves DEF Procs
<1>2. ParentType' /\ HistoryType' /\ FlagType'
  BY TypesStay
<1>3. ParentInv'
  BY <1>1 DEF ParentInv, At, FifosRemoved, Returned
<1>4. Owed' = Owed /\ pc["parent"] = "open_data"
  BY <1>1 DEF Owed, At
<1>5. fds' \subseteq AllEnds("parent") \union AllEnds("child") /\ fifos' \subseteq Chans
      /\ met' \subseteq Chans
  BY DEF TypeInv, ChannelType
<1>. QED
  BY <1>2, <1>3, <1>4, <1>5, ParentStays DEF Early, Over, Returned, ParentPcs

LEMMA ParentOpenFifoStep ==
  ASSUME IndInv, NEW c \in Chans, OpenFifo("parent", c) \/ OpenReturns("parent", c),
         UNCHANGED <<setup, fs, child>>
  PROVE  IndInv'
<1>. USE DEF OpenFifo, OpenReturns, Goto, Quiet, parent, child, setup, history, IndInv
<1>0. PICK l \in {"open_ack", "wait_data", "wait_ack", "next"} :
         pc' = [pc EXCEPT !["parent"] = l]
  BY DEF Opened, WaitAt, Ready
<1>1. pc'["parent"] = l /\ pc'["child"] = pc["child"]
      /\ pc["parent"] \in {"open_data", "open_ack", "wait_data", "wait_ack"}
  BY <1>0, PcMoves DEF Procs, At, OpenAt, WaitAt
<1>2. ParentType' /\ HistoryType' /\ FlagType'
  BY TypesStay DEF channels
<1>3. ParentInv'
  BY <1>1 DEF ParentInv, At, FifosRemoved, Returned
<1>4. Owed' = Owed
  BY <1>1 DEF Owed, At
<1>5. fds' \subseteq AllEnds("parent") \union AllEnds("child") /\ fifos' \subseteq Chans
      /\ met' \subseteq Chans
  BY EndsTyped DEF TypeInv, ChannelType, channels, Procs
<1>6. UNCHANGED <<data, ack, fs, child>>
  BY DEF channels
<1>. QED
  BY <1>0, <1>1, <1>2, <1>3, <1>4, <1>5, <1>6, ParentStays DEF Early, Over, Returned, ParentPcs

LEMMA ParentOpenFailsStep ==
  ASSUME IndInv, NEW c \in Chans, ParentOpenFails(c), UNCHANGED <<setup, fs, child>>
  PROVE  IndInv'
<1>. USE DEF ParentOpenFails, Fault, parent, child, setup, IndInv
<1>1. /\ pc' \in [Procs -> ParentPcs \union ChildPcs]
      /\ pc'["parent"] = "failure" /\ pc'["child"] \in Exited
      /\ pc'["child"] # pc["child"] => pc'["child"] = "killed"
  BY DEF TypeInv, PcType, Procs, ParentPcs, ChildPcs, Returned, Exited
<1>2. ParentType' /\ FlagType' /\ ChildType'
  BY TypesStay DEF TypeInv, FlagType
<1>3. HistoryType'
  BY FileCopyAssumption DEF TypeInv, HistoryType
<1>4. PcType'
  BY <1>1 DEF PcType, ParentPcs, ChildPcs, Returned
<1>5. ChannelType'
  BY DEF TypeInv, ChannelType
<1>6. ParentInv'
  BY <1>1 DEF ParentInv, At, FifosRemoved, Returned
<1>7. ChunkInv'
  BY <1>1 DEF ChunkInv, At, Exited, Inside
<1>8. Protocol'
  BY <1>1 DEF Protocol, ReadyInv, BetweenInv, InsideInv, Granted, Owed, At, NotYet, Inside,
    Exited
<1>. QED
  BY <1>2, <1>3, <1>4, <1>5, <1>6, <1>7, <1>8 DEF TypeInv

-----------------------------------------------------------------------------
(* The parent between two messages *)

LEMMA SkipFileStep ==
  ASSUME IndInv, SkipFile, UNCHANGED <<setup, fs, child>>
  PROVE  IndInv'
<1>. USE DEF SkipFile, FileError, Fault, channels, setup, IndInv
<1>0. PICK l \in ParentPcs : l = "next" /\ pc["parent"] = l /\ pc' = [pc EXCEPT !["parent"] = l]
  BY DEF TypeInv, PcType, Procs, At, ParentPcs
<1>1. i \in Nat /\ i <= Len(files) /\ files[i] \in Names /\ Len(files) \in Nat
  BY DEF TypeInv, ParentType
<1>2. ParentType'
  BY <1>1 DEF TypeInv, ParentType
<1>3. HistoryType'
  BY <1>1, FileCopyAssumption DEF TypeInv, HistoryType
<1>4. FlagType'
  BY DEF TypeInv, FlagType, child
<1>5. ParentInv'
  BY <1>0 DEF ParentInv, At, FifosRemoved, Returned
<1>6. Owed' = Owed
  BY <1>0 DEF Owed, At
<1>7. fds' \subseteq AllEnds("parent") \union AllEnds("child") /\ fifos' \subseteq Chans
      /\ met' \subseteq Chans
  BY DEF TypeInv, ChannelType
<1>. QED
  BY <1>0, <1>2, <1>3, <1>4, <1>5, <1>6, <1>7, ParentStays DEF Early, Over, Returned

LEMMA OpenFileStep ==
  ASSUME IndInv, OpenFile, UNCHANGED <<setup, fs, child>>
  PROVE  IndInv'
<1>. USE DEF OpenFile, Goto, Quiet, channels, setup, history, IndInv
<1>1. pc'["parent"] = "wait_ready" /\ pc'["child"] = pc["child"] /\ pc["parent"] = "next"
  BY PcMoves DEF Procs, At
<1>2. fs[files[i]] \in Seq(Bytes)
  BY DEF TypeInv, ParentType, ChildType
<1>3. ParentType'
  BY <1>2, EmptyLen DEF TypeInv, ParentType
<1>4. HistoryType' /\ FlagType'
  BY TypesStay DEF child
<1>5. ParentInv'
  BY <1>1, <1>2 DEF ParentInv, At, FifosRemoved, Returned
<1>6. Owed' = Owed
  BY <1>1 DEF Owed, At
<1>7. fds' \subseteq AllEnds("parent") \union AllEnds("child") /\ fifos' \subseteq Chans
      /\ met' \subseteq Chans
  BY DEF TypeInv, ChannelType
<1>. QED
  BY <1>1, <1>3, <1>4, <1>5, <1>6, <1>7, ParentStays DEF Early, Over, Returned, ParentPcs

LEMMA NoMoreFilesStep ==
  ASSUME IndInv, NoMoreFiles, UNCHANGED <<setup, fs, child>>
  PROVE  IndInv'
<1>. USE DEF NoMoreFiles, Goto, Quiet, channels, setup, history, parent, IndInv
<1>1. pc'["parent"] = "final_ready" /\ pc'["child"] = pc["child"] /\ pc["parent"] = "next"
  BY PcMoves DEF Procs, At
<1>2. ParentType' /\ HistoryType' /\ FlagType'
  BY TypesStay DEF child
<1>3. ParentInv'
  BY <1>1 DEF ParentInv, At, FifosRemoved, Returned
<1>4. Owed' = Owed
  BY <1>1 DEF Owed, At
<1>5. fds' \subseteq AllEnds("parent") \union AllEnds("child") /\ fifos' \subseteq Chans
      /\ met' \subseteq Chans
  BY DEF TypeInv, ChannelType
<1>. QED
  BY <1>1, <1>2, <1>3, <1>4, <1>5, ParentStays DEF Early, Over, Returned, ParentPcs

\* The parent gives up.
LEMMA FatalStep ==
  ASSUME IndInv, Fatal,
         UNCHANGED <<setup, fs, child, channels, had_file_error, failed>>,
         ParentType', faults' \in 0 .. MaxFaults, broken' \in BOOLEAN
  PROVE  IndInv'
<1>. USE DEF Fatal, Goto, channels, setup, IndInv
<1>1. pc'["parent"] = "close" /\ pc'["child"] = pc["child"]
  BY PcMoves DEF Procs
<1>2. HistoryType'
  BY DEF TypeInv, HistoryType
<1>3. FlagType'
  BY DEF TypeInv, FlagType, child
<1>4. ParentInv'
  BY <1>1 DEF ParentInv, At, FifosRemoved, Returned
<1>5. fds' \subseteq AllEnds("parent") \union AllEnds("child") /\ fifos' \subseteq Chans
      /\ met' \subseteq Chans
  BY DEF TypeInv, ChannelType
<1>. QED
  BY <1>1, <1>2, <1>3, <1>4, <1>5, ParentStays DEF Over, ParentPcs

\* A READY arrives, or nobody is left to send one.
LEMMA WaitReadyStep ==
  ASSUME IndInv, NEW at, NEW l,
         <<at, l>> \in {<<"wait_ready", "header">>, <<"final_ready", "end">>},
         wait_ready(at, l), UNCHANGED <<setup, fs, child>>
  PROVE  IndInv'
<1>. USE DEF wait_ready, Goto, Quiet, setup, history, IndInv
<1>0. pc["parent"] = at /\ at \in {"wait_ready", "final_ready"} /\ l \in {"header", "end"}
  BY DEF At
<1>1. ParentType' /\ HistoryType'
  BY TypesStay
<1>2. CASE ack = 0 /\ Writers("ack") = {} /\ Fatal /\ UNCHANGED ack
  BY <1>1, <1>2, FatalStep DEF channels, TypeInv, HistoryType, FlagType
<1>3. CASE ack > 0 /\ ack' = ack - 1 /\ Goto("parent", l) /\ UNCHANGED fatal_error
  <2>1. pc'["parent"] = l /\ pc'["child"] = pc["child"] /\ PcType'
    BY <1>0, <1>3, PcMoves DEF Procs, ParentPcs
  <2>2. ack = 1 /\ ack' = 0 /\ data = <<>> /\ pc["child"] \in {"header"} \union Exited
    BY <1>3 DEF Protocol, ReadyInv
  <2>3. ChannelType'
    BY <2>2, FileCopyAssumption DEF TypeInv, ChannelType
  <2>4. FlagType' /\ ChildType'
    BY <1>3, TypesStay DEF child
  <2>5. ParentInv'
    BY <1>0, <1>3, <2>1 DEF ParentInv, At, FifosRemoved, Returned
  <2>6. ChunkInv'
    BY <2>1, ChunkStays
  <2>7. Protocol'
    BY <1>0, <2>1, <2>2 DEF Protocol, ReadyInv, BetweenInv, InsideInv, At, NotYet, Inside, Exited
  <2>. QED
    BY <1>1, <2>1, <2>3, <2>4, <2>5, <2>6, <2>7 DEF TypeInv
<1>. QED
  BY <1>2, <1>3

LEMMA FileSentStep ==
  ASSUME IndInv, FileSent, UNCHANGED <<setup, fs, child>>
  PROVE  IndInv'
<1>. USE DEF FileSent, Goto, Quiet, channels, setup, history, IndInv
<1>1. pc'["parent"] = "next" /\ pc'["child"] = pc["child"] /\ pc["parent"] = "read"
  BY PcMoves DEF Procs, At
<1>2. ParentType'
  <2>1. i <= Len(files) /\ i \in Nat /\ Len(files) \in Nat
    BY <1>1, EmptyLen DEF ParentInv, TypeInv, ParentType
  <2>. QED
    BY <2>1 DEF TypeInv, ParentType
<1>3. HistoryType' /\ FlagType'
  BY TypesStay DEF child
<1>4. ParentInv'
  BY <1>1 DEF ParentInv, At, FifosRemoved, Returned
<1>5. Owed' = Owed
  BY <1>1 DEF Owed, At
<1>6. fds' \subseteq AllEnds("parent") \union AllEnds("child") /\ fifos' \subseteq Chans
      /\ met' \subseteq Chans
  BY DEF TypeInv, ChannelType
<1>. QED
  BY <1>1, <1>2, <1>3, <1>4, <1>5, <1>6, ParentStays DEF Early, Over, Returned, ParentPcs

LEMMA CloseEndsStep ==
  ASSUME IndInv, CloseEnds, UNCHANGED <<setup, fs, child>>
  PROVE  IndInv'
<1>. USE DEF CloseEnds, Ends, Goto, Quiet, setup, history, parent, child, IndInv
<1>1. pc'["parent"] = "waitpid" /\ pc'["child"] = pc["child"]
  BY PcMoves DEF Procs
<1>2. ParentType' /\ HistoryType' /\ FlagType'
  BY TypesStay
<1>3. ParentInv'
  BY <1>1 DEF ParentInv, At, FifosRemoved, Returned
<1>4. fds' \subseteq AllEnds("parent") \union AllEnds("child") /\ fifos' \subseteq Chans
      /\ met' \subseteq Chans
  BY DEF TypeInv, ChannelType
<1>. QED
  BY <1>1, <1>2, <1>3, <1>4, ParentStays DEF Over, ParentPcs

LEMMA WaitPidStep ==
  ASSUME IndInv, WaitPid, UNCHANGED <<setup, fs, child>>
  PROVE  IndInv'
<1>. USE DEF WaitPid, Goto, Quiet, channels, setup, history, IndInv
<1>1. pc'["parent"] = "unlink" /\ pc'["child"] = pc["child"]
  BY PcMoves DEF Procs
<1>2. ParentType' /\ HistoryType'
  BY TypesStay
<1>3. FlagType'
  BY DEF TypeInv, FlagType, child
<1>4. ParentInv'
  BY <1>1 DEF ParentInv, At, FifosRemoved, Returned
<1>5. fds' \subseteq AllEnds("parent") \union AllEnds("child") /\ fifos' \subseteq Chans
      /\ met' \subseteq Chans
  BY DEF TypeInv, ChannelType
<1>. QED
  BY <1>1, <1>2, <1>3, <1>4, <1>5, ParentStays DEF Over, ParentPcs

LEMMA FinishStep ==
  ASSUME IndInv, Finish, UNCHANGED <<setup, fs, child>>
  PROVE  IndInv'
<1>. USE DEF Finish, Goto, Quiet, setup, history, parent, child, IndInv
<1>1. Status \in Returned /\ pc'["parent"] = Status /\ pc'["child"] = pc["child"]
  BY PcMoves DEF Procs, Status, Returned
<1>2. ParentType' /\ HistoryType' /\ FlagType'
  BY TypesStay
<1>3. ParentInv'
  BY <1>1 DEF ParentInv, At, FifosRemoved, Returned
<1>4. fds' \subseteq AllEnds("parent") \union AllEnds("child") /\ fifos' \subseteq Chans
      /\ met' \subseteq Chans
  BY DEF TypeInv, ChannelType
<1>. QED
  BY <1>1, <1>2, <1>3, <1>4, ParentStays DEF Over, ParentPcs

-----------------------------------------------------------------------------
(* The parent sends *)

\* What a block holds: bytes of the file, no more than were asked for.
LEMMA BlockRead ==
  ASSUME NEW s \in Seq(Bytes), NEW pos \in Nat, NEW n \in Nat
  PROVE  LET got == SubSeq(s, pos + 1, Least(pos + n, Len(s)))
         IN got \in Seq(Bytes) /\ Len(got) \in Nat /\ Len(got) <= n
<1>1. Least(pos + n, Len(s)) \in Int /\ Least(pos + n, Len(s)) <= pos + n
      /\ Least(pos + n, Len(s)) <= Len(s)
  BY EmptyLen DEF Least
<1>2. \A k \in pos + 1 .. Least(pos + n, Len(s)) : s[k] \in Bytes
  BY <1>1, ElementOfSeq
<1>. QED
  BY <1>1, <1>2, SubSeqProperties

LEMMA ReadBlockStep ==
  ASSUME IndInv, ReadBlock, UNCHANGED <<setup, fs, child>>
  PROVE  IndInv'
<1>. DEFINE want == Least(BLOCK_SIZE, remaining)
            pos  == size - remaining
            got  == SubSeq(fs[files[i]], pos + 1, Least(pos + want, Len(fs[files[i]])))
<1>. USE DEF ReadBlock, setup, IndInv
<1>1. pc["parent"] = "read" /\ remaining <= size /\ remaining \in Nat /\ size \in Nat
      /\ fs[files[i]] \in Seq(Bytes) /\ i <= Len(files)
  BY DEF At, ParentInv, TypeInv, ParentType
<1>2. want \in Nat /\ want <= BLOCK_SIZE /\ want <= remaining /\ pos \in Nat
  BY <1>1, FileCopyAssumption DEF Least
<1>3. got \in Seq(Bytes) /\ Len(got) \in Nat /\ Len(got) <= want /\ (got = <<>> <=> Len(got) = 0)
  BY <1>1, <1>2, BlockRead, EmptyLen
<1>4. CASE got = <<>>
  <2>1. Fatal /\ broken' = TRUE /\ UNCHANGED <<buffer, remaining>>
    BY <1>4
  <2>2. ParentType'
    BY <2>1, TypesStay
  <2>. QED
    BY <2>1, <2>2, FatalStep DEF TypeInv, HistoryType
<1>5. CASE got # <<>>
  <2>1. /\ buffer' = got /\ remaining' = remaining - Len(got)
        /\ pc' = [pc EXCEPT !["parent"] = "write"] /\ UNCHANGED <<fatal_error, broken>>
    BY <1>5 DEF Goto
  <2>2. pc'["parent"] = "write" /\ pc'["child"] = pc["child"]
    BY <2>1, PcMoves DEF Procs
  <2>0. UNCHANGED <<files, i, size>> /\ TypeInv /\ BLOCK_SIZE \in Nat
    BY FileCopyAssumption
  <2>. HIDE DEF got, want, pos, ReadBlock, setup, IndInv
  <2>3. ParentType'
    BY <1>1, <1>2, <1>3, <2>0, <2>1 DEF TypeInv, ParentType
  <2>. USE DEF ReadBlock, setup, IndInv
  <2>4. HistoryType' /\ FlagType'
    BY <2>1, TypesStay DEF child
  <2>5. ParentInv'
    BY <1>1, <1>2, <1>3, <1>5, <2>1, <2>2 DEF ParentInv, At, FifosRemoved, Returned
  <2>6. Owed' = Owed
    BY <1>1, <1>2, <1>3, <2>1, <2>2 DEF Owed, At
  <2>7. fds' \subseteq AllEnds("parent") \union AllEnds("child") /\ fifos' \subseteq Chans
        /\ met' \subseteq Chans /\ UNCHANGED <<data, ack>>
    BY DEF TypeInv, ChannelType, channels
  <2>. QED
    BY <1>1, <2>1, <2>3, <2>4, <2>5, <2>6, <2>7, ParentStays DEF Early, Over, Returned, ParentPcs
<1>. QED
  BY <1>4, <1>5

LEMMA ReadFailsStep ==
  ASSUME IndInv, ReadFails, UNCHANGED <<setup, fs, child>>
  PROVE  IndInv'
<1>1. ParentType'
  BY TypesStay DEF IndInv, ReadFails, setup
<1>2. faults' \in 0 .. MaxFaults
  BY FileCopyAssumption DEF IndInv, ReadFails, Fault, TypeInv, HistoryType
<1>. QED
  BY <1>1, <1>2, FatalStep DEF ReadFails

\* One unit goes into the channel.
LEMMA UnitSent ==
  ASSUME IndInv, NEW u \in Units, NEW l \in ParentPcs, Goto("parent", l),
         Len(data) < PipeCap, data' = Append(data, u),
         UNCHANGED <<setup, fs, child, fds, met, ack, fifos, fatal_error, had_file_error>>,
         UNCHANGED <<failed, broken, faults>>,
         ParentType', ParentInv', Protocol'
  PROVE  IndInv'
<1>1. PcType' /\ pc'["child"] = pc["child"]
  BY PcMoves DEF Procs, Goto, IndInv
<1>2. ChannelType'
  BY PutLast, EmptyLen, FileCopyAssumption DEF IndInv, TypeInv, ChannelType
<1>3. ChildType' /\ HistoryType' /\ FlagType'
  BY TypesStay DEF IndInv, setup, child
<1>4. ChunkInv'
  BY <1>1, ChunkStays DEF IndInv
<1>. QED
  BY <1>1, <1>2, <1>3, <1>4 DEF IndInv, TypeInv

\* A message begins when the channel is empty and the child, if it lives, waits for it.
LEMMA MessageBegins ==
  ASSUME IndInv, NEW u \in Headers, pc["parent"] \in {"header", "end"}, NEW l \in ParentPcs,
         Goto("parent", l), data' = Append(data, u), UNCHANGED <<ack, child>>,
         l \in {"read", "close"}, u.size = Owed'
  PROVE  Protocol'
<1>. USE DEF IndInv, Protocol
<1>1. pc'["parent"] = l /\ pc'["child"] = pc["child"]
  BY PcMoves DEF Procs, Goto
<1>2. Granted /\ pc["child"] \notin NotYet \union Inside /\ ack = 0
  BY DEF Granted, ReadyInv, InsideInv
<1>3. At("child", "header") => data = <<>>
  BY <1>2 DEF BetweenInv
<1>4. u \in Units /\ u.type # "BYTE" /\ u.size \in Nat
  BY UnitTypes DEF Headers, Units
<1>5. ASSUME At("child", "header")
      PROVE  data' # <<>> /\ Len(data') = 1 /\ Head(data') = u
  BY <1>3, <1>4, <1>5, TakeFirst, PutLast, EmptyLen DEF TypeInv, ChannelType
<1>6. ReadyInv'
  BY <1>1, <1>2 DEF ReadyInv, child
<1>7. BetweenInv'
  BY <1>1, <1>4, <1>5 DEF BetweenInv, At, Early, Over, Returned, Accounted
<1>8. InsideInv'
  BY <1>1, <1>2 DEF InsideInv
<1>. QED
  BY <1>6, <1>7, <1>8

LEMMA SendHeaderStep ==
  ASSUME IndInv, SendHeader, UNCHANGED <<setup, fs, child>>
  PROVE  IndInv'
<1>. USE DEF SendHeader, setup, IndInv
<1>1. pc["parent"] = "header" /\ files[i] \in Names /\ fs[files[i]] \in Seq(Bytes)
      /\ i <= Len(files) /\ size \in Nat
  BY EmptyLen DEF At, ParentInv, TypeInv, ParentType
<1>2. ParentType'
  BY DEF TypeInv, ParentType
<1>3. CASE Readers("data") = {} /\ Fatal /\ UNCHANGED data
  BY <1>2, <1>3, FatalStep DEF Quiet, history, channels, TypeInv, HistoryType, FlagType
<1>4. CASE /\ Len(data) < PipeCap /\ data' = Append(data, Header("FILE", files[i], size))
           /\ Goto("parent", "read") /\ UNCHANGED fatal_error
  <2>1. Header("FILE", files[i], size) \in Headers /\ Header("FILE", files[i], size) \in Units
        /\ Header("FILE", files[i], size).size = size
    BY <1>1 DEF Headers, Units, Header
  <2>2. pc'["parent"] = "read" /\ pc'["child"] = pc["child"]
    BY <1>4, PcMoves DEF Procs, Goto
  <2>3. Owed' = size
    BY <2>2 DEF Owed, At
  <2>4. ParentInv'
    BY <1>1, <2>2 DEF ParentInv, At, FifosRemoved, Returned
  <2>5. Protocol'
    BY <1>1, <1>4, <2>1, <2>3, MessageBegins DEF ParentPcs
  <2>. QED
    BY <1>2, <1>4, <2>1, <2>4, <2>5, UnitSent DEF ParentPcs, Quiet, history
<1>. QED
  BY <1>3, <1>4 DEF SendUnit

LEMMA SendEndStep ==
  ASSUME IndInv, SendEnd, UNCHANGED <<setup, fs, child>>
  PROVE  IndInv'
<1>. USE DEF SendEnd, setup, IndInv
<1>1. pc["parent"] = "end"
  BY DEF At
<1>2. ParentType'
  BY TypesStay
<1>3. CASE Readers("data") = {} /\ Fatal /\ UNCHANGED data
  BY <1>2, <1>3, FatalStep DEF Quiet, history, channels, TypeInv, HistoryType, FlagType
<1>4. CASE /\ Len(data) < PipeCap /\ data' = Append(data, Header("END", 0, 0))
           /\ Goto("parent", "close") /\ UNCHANGED fatal_error
  <2>1. Header("END", 0, 0) \in Headers /\ Header("END", 0, 0) \in Units
        /\ Header("END", 0, 0).size = 0
    BY DEF Headers, Units, Header
  <2>2. pc'["parent"] = "close" /\ pc'["child"] = pc["child"]
    BY <1>4, PcMoves DEF Procs, Goto
  <2>3. Owed' = 0
    BY <2>2 DEF Owed, At
  <2>4. ParentInv'
    BY <2>2 DEF ParentInv, At, FifosRemoved, Returned
  <2>5. Protocol'
    BY <1>1, <1>4, <2>1, <2>3, MessageBegins DEF ParentPcs
  <2>. QED
    BY <1>2, <1>4, <2>1, <2>4, <2>5, UnitSent DEF ParentPcs, Quiet, history
<1>. QED
  BY <1>3, <1>4 DEF SendUnit

\* A byte goes after the units of its own message.
LEMMA MessageGoesOn ==
  ASSUME IndInv, NEW u \in DataUnits, pc["parent"] = "write", NEW l \in {"read", "write"},
         Goto("parent", l), data' = Append(data, u), UNCHANGED <<ack, child>>,
         Owed' = Owed - 1, Owed' \in Nat
  PROVE  Protocol'
<1>. USE DEF IndInv, Protocol
<1>1. pc'["parent"] = l /\ pc'["child"] = pc["child"]
  BY PcMoves DEF Procs, Goto
<1>2. Owed \in Nat /\ Owed > 0
  BY EmptyLen DEF Owed, At, TypeInv, ParentType
<1>3. Granted /\ ack = 0 /\ pc["child"] \notin NotYet
  BY <1>2 DEF Granted, ReadyInv
<1>4. data \in Seq(Units) /\ u \in Units /\ u.type = "BYTE"
  BY DEF DataUnits, Units, TypeInv, ChannelType
<1>5. /\ data' \in Seq(Units) /\ Len(data') = Len(data) + 1 /\ data' # <<>>
      /\ \A k \in 1 .. Len(data) : data'[k] = data[k]
      /\ data'[Len(data) + 1].type = "BYTE" /\ Len(data) \in Nat
  BY <1>4, PutLast, EmptyLen
<1>6. data # <<>> => Head(data') = Head(data) /\ Head(data).size \in Nat
  BY <1>4, <1>5, TakeFirst, UnitTypes
<1>7. ReadyInv'
  BY <1>1, <1>3 DEF ReadyInv, child
<1>8. BetweenInv'
  <2>1. CASE At("child", "header")
    <3>1. /\ data # <<>> /\ Head(data).type # "BYTE"
          /\ \A k \in 2 .. Len(data) : data[k].type = "BYTE"
          /\ Head(data).size = Len(data) - 1 + Owed
      BY <1>3, <2>1 DEF BetweenInv, Accounted, Over, Returned
    <3>2. \A k \in 2 .. Len(data') : data'[k].type = "BYTE"
      BY <1>5, <3>1
    <3>3. Head(data').size = Len(data') - 1 + Owed'
      BY <1>2, <1>5, <1>6, <3>1
    <3>. QED
      BY <1>1, <1>5, <1>6, <3>1, <3>2, <3>3 DEF BetweenInv, Accounted, Over, Early, Returned
  <2>. QED
    BY <1>1, <2>1 DEF BetweenInv, At
<1>9. InsideInv'
  <2>1. CASE pc["child"] \in Inside
    <3>1. /\ \A k \in 1 .. Len(data) : data[k].type = "BYTE"
          /\ left - Len(block) = Len(data) + Owed
      BY <2>1 DEF InsideInv, Accounted, Over, Returned
    <3>2. \A k \in 1 .. Len(data') : data'[k].type = "BYTE"
      BY <1>5, <3>1
    <3>3. left' - Len(block') = Len(data') + Owed'
      BY <1>2, <1>5, <3>1 DEF child
    <3>. QED
      BY <1>1, <1>3, <3>2, <3>3 DEF InsideInv, Accounted, Over, Early, Returned
  <2>. QED
    BY <1>1, <2>1 DEF InsideInv
<1>. QED
  BY <1>7, <1>8, <1>9

LEMMA SendDataStep ==
  ASSUME IndInv, SendData, UNCHANGED <<setup, fs, child>>
  PROVE  IndInv'
<1>. DEFINE l == IF Len(buffer) = 1 THEN "read" ELSE "write"
<1>. USE DEF SendData, setup, IndInv
<1>1. pc["parent"] = "write" /\ buffer # <<>> /\ buffer \in Seq(Bytes) /\ remaining \in Nat
      /\ remaining <= size /\ i <= Len(files) /\ fs[files[i]] \in Seq(Bytes)
  BY DEF At, ParentInv, TypeInv, ParentType
<1>2. /\ Head(buffer) \in Bytes /\ buffer' = Tail(buffer) /\ buffer' \in Seq(Bytes)
      /\ Len(buffer') = Len(buffer) - 1 /\ Len(buffer) \in Nat /\ Len(buffer') \in Nat
      /\ (buffer' = <<>> <=> Len(buffer') = 0) /\ Len(buffer) >= 1
  BY <1>1, TakeFirst, EmptyLen
<1>3. ParentType'
  <2>1. UNCHANGED <<files, i, remaining, size>> /\ BLOCK_SIZE \in Nat /\ TypeInv
    BY FileCopyAssumption
  <2>. QED
    BY <1>2, <2>1 DEF TypeInv, ParentType
<1>4. CASE Readers("data") = {} /\ Fatal /\ UNCHANGED data
  BY <1>3, <1>4, FatalStep DEF Quiet, history, channels, TypeInv, HistoryType, FlagType
<1>5. CASE /\ Len(data) < PipeCap /\ data' = Append(data, Byte(Head(buffer)))
           /\ Goto("parent", l) /\ UNCHANGED fatal_error
  <2>1. Byte(Head(buffer)) \in DataUnits /\ Byte(Head(buffer)) \in Units
    BY <1>2 DEF DataUnits, Units, Byte
  <2>2. pc'["parent"] = l /\ pc'["child"] = pc["child"]
    BY <1>5, PcMoves DEF Procs, Goto
  <2>3. Owed' = Owed - 1 /\ Owed' \in Nat
    BY <1>1, <1>2, <2>2 DEF Owed, At
  <2>4. ParentInv'
    BY <1>1, <1>2, <2>2 DEF ParentInv, At, FifosRemoved, Returned
  <2>5. Protocol'
    BY <1>1, <1>5, <2>1, <2>3, MessageGoesOn
  <2>. QED
    BY <1>3, <1>5, <2>1, <2>4, <2>5, UnitSent DEF ParentPcs, Quiet, history
<1>. QED
  BY <1>4, <1>5 DEF SendUnit

-----------------------------------------------------------------------------
(* The child *)

\* The child's steps leave the parent where it is, and make no file disappear.
LEMMA ParentUntouched ==
  ASSUME IndInv, pc["child"] # "unborn", pc'["parent"] = pc["parent"],
         UNCHANGED <<setup, fifos, parent>>,
         \A f \in Names : fs[f] \in Seq(Bytes) => fs'[f] \in Seq(Bytes)
  PROVE  ParentInv'
<1>1. i \in Nat /\ i >= 1 /\ files \in Seq(Names)
  BY DEF IndInv, TypeInv, ParentType
<1>2. i <= Len(files) => files[i] \in Names
  BY <1>1
<1>. QED
  BY <1>2 DEF IndInv, ParentInv, At, FifosRemoved, setup, parent

\* Opening its ends, or failing to.
LEMMA ChildOpeningStep ==
  ASSUME IndInv, Opening("child"), UNCHANGED <<setup, fs, child>>
  PROVE  IndInv'
<1>. USE DEF IndInv, child, parent, setup, history, Quiet
<1>0. PICK l \in {"open_ack", "wait_data", "wait_ack", "ready"} :
         /\ pc' = [pc EXCEPT !["child"] = l]
         /\ pc["child"] \in {"open_data", "open_ack", "wait_data", "wait_ack"}
         /\ fds' \subseteq AllEnds("parent") \union AllEnds("child")
         /\ met' \subseteq Chans
         /\ UNCHANGED <<data, ack, fifos, parent, failed, broken, faults>>
  <2>1. CASE CloseUnused("child")
    BY <2>1 DEF CloseUnused, Goto, At, Ready, TypeInv, ChannelType
  <2>2. CASE \E c \in Chans : OpenFifo("child", c)
    BY <2>2, EndsTyped DEF OpenFifo, Goto, At, OpenAt, WaitAt, Opened, Ready, TypeInv,
      ChannelType, Procs
  <2>3. CASE \E c \in Chans : OpenReturns("child", c)
    BY <2>3 DEF OpenReturns, Goto, At, WaitAt, Opened, Ready, TypeInv, ChannelType, channels
  <2>. QED
    BY <2>1, <2>2, <2>3 DEF Opening
<1>1. pc'["child"] = l /\ pc'["parent"] = pc["parent"] /\ PcType'
  BY <1>0, PcMoves DEF Procs, ChildPcs
<1>2. ParentType' /\ ChildType' /\ HistoryType' /\ FlagType'
  BY <1>0, TypesStay
<1>3. ChannelType'
  BY <1>0 DEF TypeInv, ChannelType
<1>4. ParentInv'
  BY <1>0, <1>1, ParentUntouched
<1>5. ChunkInv'
  BY <1>0, <1>1 DEF ChunkInv, At, Exited, Inside
<1>6. Protocol'
  BY <1>0, ChildOpens DEF NotYet
<1>. QED
  BY <1>1, <1>2, <1>3, <1>4, <1>5, <1>6 DEF TypeInv

\* The child ends, whatever the reason.
LEMMA ChildEnds ==
  ASSUME IndInv, NEW l \in Exited, Ends("child", l), pc["child"] # "unborn",
         UNCHANGED <<setup, parent, met, data, ack, fifos, fs, left, block, out_fd, had_error>>,
         failed' = failed, faults' \in 0 .. MaxFaults, broken' \in BOOLEAN
  PROVE  IndInv'
<1>. USE DEF IndInv, parent, setup
<1>1. pc'["child"] = l /\ pc'["parent"] = pc["parent"] /\ PcType'
  BY PcMoves DEF Ends, Goto, Procs, ChildPcs
<1>2. ParentType' /\ ChildType'
  BY TypesStay
<1>3. HistoryType'
  BY DEF TypeInv, HistoryType
<1>4. FlagType'
  BY DEF TypeInv, FlagType
<1>5. ChannelType'
  BY DEF TypeInv, ChannelType, Ends
<1>6. ParentInv'
  BY <1>1, ParentUntouched
<1>7. ChunkInv'
  BY <1>1 DEF ChunkInv, At, Exited, Inside
<1>8. Protocol'
  BY ChildDies DEF Ends, Goto
<1>. QED
  BY <1>1, <1>2, <1>3, <1>4, <1>5, <1>6, <1>7, <1>8 DEF TypeInv

LEMMA ChildOpenFailsStep ==
  ASSUME IndInv, NEW c \in Chans, ChildOpenFails(c), UNCHANGED <<setup, fs, child>>
  PROVE  IndInv'
<1>1. faults' \in 0 .. MaxFaults
  BY FileCopyAssumption DEF ChildOpenFails, Fault, IndInv, TypeInv, HistoryType
<1>2. pc["child"] # "unborn"
  BY DEF ChildOpenFails, At, OpenAt
<1>. QED
  BY <1>1, <1>2, ChildEnds DEF ChildOpenFails, Exited, child

LEMMA EndOfDataStep ==
  ASSUME IndInv, EndOfData, UNCHANGED <<setup, fifos, parent>>
  PROVE  IndInv'
<1>1. faults' \in 0 .. MaxFaults /\ failed' = failed
  BY DEF EndOfData, Quiet, history, IndInv, TypeInv, HistoryType
<1>2. broken' \in BOOLEAN
  BY DEF EndOfData, Quiet, history, IndInv, TypeInv, FlagType
<1>. QED
  BY <1>1, <1>2, ChildEnds DEF EndOfData, Exited, child

LEMMA SendReadyStep ==
  ASSUME IndInv, SendReady, UNCHANGED <<setup, fifos, parent>>
  PROVE  IndInv'
<1>. USE DEF IndInv, SendReady, Quiet, history
<1>1. CASE Readers("ack") = {}
  BY <1>1, ChildEnds DEF Exited, child, At, TypeInv, HistoryType, FlagType
<1>2. CASE Readers("ack") # {}
  <2>0. pc["child"] = "ready" /\ ack = 0 /\ data = <<>> /\ ~Granted /\ ack' = 1
        /\ UNCHANGED <<fds, fs, child, data>>
    BY <1>2 DEF At, Protocol, ReadyInv, NotYet
  <2>1. pc'["child"] = "header" /\ pc'["parent"] = pc["parent"] /\ PcType'
    BY <1>2, PcMoves DEF Goto, Procs, ChildPcs
  <2>2. ParentType' /\ ChildType' /\ HistoryType' /\ FlagType'
    BY <2>0, TypesStay DEF setup, parent, child
  <2>3. ChannelType'
    BY <2>0, FileCopyAssumption DEF TypeInv, ChannelType
  <2>4. ParentInv'
    BY <2>0, <2>1, ParentUntouched
  <2>5. ChunkInv'
    BY <2>0, <2>1 DEF ChunkInv, At, Exited, Inside, child
  <2>6. ~Granted'
    BY <2>0, <2>1 DEF Granted, Owed, At, parent
  <2>7. Protocol'
    BY <2>0, <2>1, <2>6 DEF Protocol, ReadyInv, BetweenInv, InsideInv, NotYet, Inside
  <2>. QED
    BY <2>1, <2>2, <2>3, <2>4, <2>5, <2>7 DEF TypeInv
<1>. QED
  BY <1>1, <1>2

LEMMA ReadHeaderStep ==
  ASSUME IndInv, ReadHeader, UNCHANGED <<setup, fifos, parent>>
  PROVE  IndInv'
<1>. USE DEF IndInv, ReadHeader, Quiet, history
<1>1. /\ pc["child"] = "header" /\ data # <<>> /\ data \in Seq(Units) /\ data' = Tail(data)
      /\ UNCHANGED <<ack, fs, block, out_fd, failed, broken, faults, had_error>>
  BY DEF At, TypeInv, ChannelType
<1>2. /\ Head(data) \in Units /\ Head(data).size \in Nat /\ Len(data) >= 1 /\ Len(data) \in Nat
      /\ data' \in Seq(Units) /\ Len(data') = Len(data) - 1
      /\ \A k \in 1 .. Len(data) - 1 : data'[k] = data[k + 1]
      /\ Head(data).type = "FILE" => Head(data).arg \in Names
      /\ Head(data).type \in {"FILE", "END", "BYTE"}
  BY <1>1, TakeFirst, UnitTypes, EmptyLen
<1>3. /\ ack = 0 /\ Head(data).type # "BYTE"
      /\ \A k \in 2 .. Len(data) : data[k].type = "BYTE"
      /\ pc["parent"] \notin {"header", "end"} \union Early
      /\ Accounted(Head(data).size, Len(data) - 1)
  BY <1>1 DEF Protocol, ReadyInv, BetweenInv, At, TypeInv, ChannelType
<1>4. block = <<>> /\ ~out_fd /\ Len(block) = 0
  BY <1>1, EmptyLen DEF ChunkInv, Exited, TypeInv, ChildType
<1>5. ParentType' /\ HistoryType' /\ FlagType'
  BY <1>1, TypesStay DEF setup, parent
<1>6. ChildType'
  BY <1>1, <1>2 DEF TypeInv, ChildType
<1>7. fds' \subseteq AllEnds("parent") \union AllEnds("child")
  BY DEF Ends, TypeInv, ChannelType
<1>8. ChannelType'
  BY <1>1, <1>2, <1>7, FileCopyAssumption DEF TypeInv, ChannelType
<1>9. PICK l \in {"exit0", "exit1", "create"} :
         /\ pc' = [pc EXCEPT !["child"] = l]
         /\ l = "create" => Head(data).type # "END"
  BY DEF Ends, Goto
<1>10. pc'["child"] = l /\ pc'["parent"] = pc["parent"] /\ PcType'
  BY <1>9, PcMoves DEF Procs, ChildPcs, Exited
<1>11. ParentInv'
  BY <1>1, <1>10, ParentUntouched
<1>12. ChunkInv'
  BY <1>1, <1>2, <1>3, <1>4, <1>9, <1>10 DEF ChunkInv, At, Exited, Inside
<1>13. Protocol'
  <2>1. \A k \in 1 .. Len(data') : data'[k].type = "BYTE"
    BY <1>2, <1>3
  <2>2. Accounted(left - Len(block), Len(data))'
    <3>1. left' - Len(block') = Head(data).size /\ Len(data') = Len(data) - 1
      BY <1>1, <1>2, <1>4
    <3>. QED
      BY <1>3, <1>10, <3>1 DEF Accounted, Owed, At, parent
  <2>. QED
    BY <1>1, <1>3, <1>10, <2>1, <2>2 DEF Protocol, ReadyInv, BetweenInv, InsideInv, At,
      NotYet, Inside, Exited
<1>. QED
  BY <1>5, <1>6, <1>8, <1>10, <1>11, <1>12, <1>13 DEF TypeInv

\* The child goes on inside a message without reading.
LEMMA InsideStays ==
  ASSUME IndInv, pc["child"] \in Inside, NEW l \in Inside, pc' = [pc EXCEPT !["child"] = l],
         UNCHANGED <<parent, data, ack>>, left' - Len(block') = left - Len(block)
  PROVE  Protocol'
<1>1. pc'["child"] = l /\ pc'["parent"] = pc["parent"]
  BY PcMoves DEF IndInv, Procs
<1>2. Owed' = Owed /\ (Granted' <=> Granted)
  BY <1>1 DEF Granted, Owed, At, parent
<1>. QED
  BY <1>1, <1>2 DEF IndInv, Protocol, ReadyInv, BetweenInv, InsideInv, Accounted, At, NotYet,
    Inside, Exited

LEMMA CreateStep ==
  ASSUME IndInv, Create, UNCHANGED <<setup, fifos, parent>>
  PROVE  IndInv'
<1>. USE DEF IndInv, Create, Quiet, history
<1>1. /\ pc["child"] = "create" /\ Copy \in Names /\ block = <<>>
      /\ UNCHANGED <<fds, met, data, ack, left, block, msg>>
  BY FileCopyAssumption DEF At, ChunkInv, Inside, Exited, Copy, channels
<1>2. pc'["child"] = "data" /\ pc'["parent"] = pc["parent"] /\ PcType'
  BY PcMoves DEF Goto, Procs, ChildPcs
<1>3. ParentType' /\ HistoryType'
  BY TypesStay DEF setup, parent
<1>4. ChannelType'
  BY <1>1, TypesStay DEF channels
<1>5. fs' \in [Names -> Seq(Bytes) \union {NoFile}] /\ fs'[Copy] = <<>>
      /\ \A f \in Names : fs[f] \in Seq(Bytes) => fs'[f] \in Seq(Bytes)
  BY <1>1, EmptySeq DEF TypeInv, ChildType
<1>6. ChildType'
  BY <1>1, <1>5 DEF TypeInv, ChildType
<1>7. FlagType'
  BY DEF TypeInv, FlagType, setup, parent
<1>8. ParentInv'
  BY <1>1, <1>2, <1>5, ParentUntouched
<1>9. Copy' = Copy /\ fs'[Copy'] \in Seq(Bytes)
  BY <1>1, <1>5, EmptySeq DEF Copy
<1>10. ChunkInv'
  BY <1>1, <1>2, <1>9 DEF ChunkInv, At, Exited, Inside
<1>11. Protocol'
  BY <1>1, InsideStays DEF Inside, Goto
<1>. QED
  BY <1>2, <1>3, <1>4, <1>6, <1>7, <1>8, <1>10, <1>11 DEF TypeInv

LEMMA CreateFailsStep ==
  ASSUME IndInv, CreateFails, UNCHANGED <<setup, fifos, parent>>
  PROVE  IndInv'
<1>. USE DEF IndInv, CreateFails, FileError, Fault
<1>1. /\ pc["child"] = "create" /\ msg.arg \in Names /\ block = <<>> /\ ~out_fd
      /\ UNCHANGED <<fds, met, data, ack, left, block, msg, out_fd, fs>>
  BY DEF At, ChunkInv, Inside, Exited, channels
<1>2. pc'["child"] = "data" /\ pc'["parent"] = pc["parent"] /\ PcType'
  BY PcMoves DEF Goto, Procs, ChildPcs
<1>3. ParentType' /\ ChildType'
  BY <1>1, TypesStay DEF setup, parent
<1>4. ChannelType'
  BY <1>1, TypesStay DEF channels
<1>5. HistoryType'
  BY <1>1, FileCopyAssumption DEF TypeInv, HistoryType
<1>6. FlagType'
  BY DEF TypeInv, FlagType, setup, parent
<1>7. ParentInv'
  BY <1>1, <1>2, ParentUntouched
<1>8. ChunkInv'
  BY <1>1, <1>2 DEF ChunkInv, At, Exited, Inside
<1>9. Protocol'
  BY <1>1, InsideStays DEF Inside, Goto
<1>. QED
  BY <1>2, <1>3, <1>4, <1>5, <1>6, <1>7, <1>8, <1>9 DEF TypeInv

LEMMA ReadDataStep ==
  ASSUME IndInv, ReadData, UNCHANGED <<setup, fifos, parent>>
  PROVE  IndInv'
<1>. USE DEF IndInv, ReadData, Quiet, history
<1>1. /\ pc["child"] = "data" /\ data # <<>> /\ data \in Seq(Units) /\ data' = Tail(data)
      /\ left > 0 /\ left \in Nat /\ block \in Seq(Bytes)
      /\ UNCHANGED <<fds, met, ack, fs, msg, left, out_fd, had_error>>
      /\ UNCHANGED <<failed, broken, faults>>
  BY DEF At, TypeInv, ChannelType, ChildType
<1>2. /\ Head(data) = data[1] /\ Head(data) \in Units /\ Len(data) >= 1 /\ Len(data) \in Nat
      /\ data' \in Seq(Units) /\ Len(data') = Len(data) - 1
      /\ \A k \in 1 .. Len(data) - 1 : data'[k] = data[k + 1]
  BY <1>1, TakeFirst, EmptyLen
<1>3. /\ ack = 0 /\ pc["parent"] \notin {"header", "end"} \union Early
      /\ \A k \in 1 .. Len(data) : data[k].type = "BYTE"
      /\ Accounted(left - Len(block), Len(data))
  BY <1>1 DEF Protocol, InsideInv, Inside
<1>4. Head(data).arg \in Bytes
  BY <1>2, <1>3, UnitTypes
<1>5. /\ block' \in Seq(Bytes) /\ Len(block') = Len(block) + 1 /\ Len(block) \in Nat
  BY <1>1, <1>4, PutLast, EmptyLen
<1>6. Len(block) < Least(BLOCK_SIZE, left) /\ Least(BLOCK_SIZE, left) \in Nat
      /\ Least(BLOCK_SIZE, left) <= BLOCK_SIZE
  BY <1>1, EmptyLen, FileCopyAssumption DEF ChunkInv, At, Least, TypeInv, ChildType
<1>7. PICK l \in {"data", "write"} :
         /\ pc' = [pc EXCEPT !["child"] = l]
         /\ l = "write" <=> Len(block') = Least(BLOCK_SIZE, left)
  BY DEF Goto
<1>8. pc'["child"] = l /\ pc'["parent"] = pc["parent"] /\ PcType'
  BY <1>7, PcMoves DEF Procs, ChildPcs
<1>9. ParentType' /\ HistoryType' /\ FlagType'
  BY <1>1, TypesStay DEF setup, parent
<1>10. ChildType'
  <2>1. TypeInv /\ BLOCK_SIZE \in Nat
    BY FileCopyAssumption
  <2>. QED
    BY <1>1, <1>5, <1>6, <2>1 DEF TypeInv, ChildType
<1>11. ChannelType'
  BY <1>1, <1>2, FileCopyAssumption DEF TypeInv, ChannelType
<1>12. ParentInv'
  BY <1>1, <1>8, ParentUntouched
<1>13. ChunkInv'
  BY <1>1, <1>5, <1>6, <1>7, <1>8 DEF ChunkInv, At, Exited, Inside, Copy
<1>14. Protocol'
  <2>1. \A k \in 1 .. Len(data') : data'[k].type = "BYTE"
    BY <1>2, <1>3
  <2>2. Accounted(left - Len(block), Len(data))'
    <3>1. Owed' = Owed /\ Owed \in Nat
      BY <1>8, EmptyLen DEF Owed, At, parent, TypeInv, ParentType
    <3>2. left' - Len(block') = left - Len(block) - 1 /\ left - Len(block) \in Int
      BY <1>1, <1>5
    <3>. QED
      BY <1>2, <1>3, <1>8, <3>1, <3>2 DEF Accounted
  <2>. QED
    BY <1>1, <1>3, <1>8, <2>1, <2>2 DEF Protocol, ReadyInv, BetweenInv, InsideInv, At,
      NotYet, Inside, Exited
<1>. QED
  BY <1>8, <1>9, <1>10, <1>11, <1>12, <1>13, <1>14 DEF TypeInv

\* A chunk is done: it was no longer than what was left of the file.
LEMMA ChunkIsDone ==
  ASSUME IndInv, pc["child"] = "write", ChunkDone
  PROVE  /\ block \in Seq(Bytes) /\ block' = <<>> /\ block' \in Seq(Bytes) /\ Len(block') = 0
         /\ left' \in Nat /\ left' - Len(block') = left - Len(block)
<1>1. Len(block) = Least(BLOCK_SIZE, left) /\ left \in Nat /\ block \in Seq(Bytes)
  BY DEF IndInv, ChunkInv, At, TypeInv, ChildType
<1>2. Len(block) \in Nat /\ Len(block) <= left
  BY <1>1, EmptyLen, FileCopyAssumption DEF Least
<1>3. block' = <<>> /\ block' \in Seq(Bytes) /\ Len(block') = 0
  BY EmptySeq, EmptyLen DEF ChunkDone
<1>. QED
  BY <1>1, <1>2, <1>3 DEF ChunkDone

LEMMA WriteBlockStep ==
  ASSUME IndInv, WriteBlock, UNCHANGED <<setup, fifos, parent>>
  PROVE  IndInv'
<1>. USE DEF IndInv, WriteBlock, Quiet, history
<1>1. /\ pc["child"] = "write" /\ Copy \in Names
      /\ UNCHANGED <<fds, met, data, ack, msg, out_fd, had_error, failed, broken, faults>>
  BY FileCopyAssumption DEF At, ChunkInv, Inside, Copy, channels
<1>2. pc'["child"] = "data" /\ pc'["parent"] = pc["parent"] /\ PcType'
  BY PcMoves DEF Goto, Procs, ChildPcs
<1>3. ParentType' /\ HistoryType' /\ FlagType'
  BY <1>1, TypesStay DEF setup, parent
<1>4. ChannelType'
  BY <1>1, TypesStay DEF channels
<1>5. /\ block \in Seq(Bytes) /\ block' = <<>> /\ block' \in Seq(Bytes) /\ Len(block') = 0
      /\ left' \in Nat /\ left' - Len(block') = left - Len(block)
  BY <1>1, ChunkIsDone
<1>6. /\ fs' \in [Names -> Seq(Bytes) \union {NoFile}]
      /\ \A f \in Names : fs[f] \in Seq(Bytes) => fs'[f] \in Seq(Bytes)
  <2>1. CASE out_fd
    <3>1. fs[Copy] \in Seq(Bytes) /\ fs \in [Names -> Seq(Bytes) \union {NoFile}]
      BY <1>1, <2>1 DEF ChunkInv, TypeInv, ChildType
    <3>2. fs[Copy] \o block \in Seq(Bytes)
      BY <1>5, <3>1, ConcatProperties
    <3>. QED
      BY <1>1, <2>1, <3>1, <3>2
  <2>2. CASE ~out_fd
    BY <2>2 DEF TypeInv, ChildType
  <2>. QED
    BY <2>1, <2>2
<1>7. ChildType'
  BY <1>5, <1>6, FileCopyAssumption DEF ChildType
<1>8. ParentInv'
  BY <1>1, <1>2, <1>6, ParentUntouched
<1>9. ChunkInv'
  BY <1>1, <1>2, <1>5, <1>6 DEF ChunkInv, At, Exited, Inside, Copy
<1>10. Protocol'
  BY <1>1, <1>5, InsideStays DEF Inside, Goto
<1>. QED
  BY <1>2, <1>3, <1>4, <1>7, <1>8, <1>9, <1>10 DEF TypeInv

LEMMA WriteFailsStep ==
  ASSUME IndInv, WriteFails, UNCHANGED <<setup, fifos, parent>>
  PROVE  IndInv'
<1>. USE DEF IndInv, WriteFails, FileError, Fault
<1>1. /\ pc["child"] = "write" /\ msg.arg \in Names /\ out_fd' = FALSE
      /\ UNCHANGED <<fds, met, data, ack, msg, fs>>
  BY DEF At, ChunkInv, Inside, channels
<1>2. pc'["child"] = "data" /\ pc'["parent"] = pc["parent"] /\ PcType'
  BY PcMoves DEF Goto, Procs, ChildPcs
<1>3. ParentType'
  BY <1>1, TypesStay DEF setup, parent
<1>4. ChannelType'
  BY <1>1, TypesStay DEF channels
<1>5. /\ block' = <<>> /\ block' \in Seq(Bytes) /\ Len(block') = 0
      /\ left' \in Nat /\ left' - Len(block') = left - Len(block)
  BY <1>1, ChunkIsDone
<1>6. ChildType'
  BY <1>1, <1>5, FileCopyAssumption DEF TypeInv, ChildType
<1>7. HistoryType'
  BY <1>1, FileCopyAssumption DEF TypeInv, HistoryType
<1>8. FlagType'
  BY DEF TypeInv, FlagType, setup, parent
<1>9. ParentInv'
  BY <1>1, <1>2, ParentUntouched
<1>10. ChunkInv'
  BY <1>1, <1>2, <1>5 DEF ChunkInv, At, Exited, Inside
<1>11. Protocol'
  BY <1>1, <1>5, InsideStays DEF Inside, Goto
<1>. QED
  BY <1>2, <1>3, <1>4, <1>6, <1>7, <1>8, <1>9, <1>10, <1>11 DEF TypeInv

LEMMA CloseCopyStep ==
  ASSUME IndInv, CloseCopy, UNCHANGED <<setup, fifos, parent>>
  PROVE  IndInv'
<1>. USE DEF IndInv, CloseCopy
<1>1. /\ pc["child"] = "data" /\ left = 0 /\ msg.arg \in Names
      /\ UNCHANGED <<fds, met, data, ack, fs, msg, left, block>>
  BY DEF At, ChunkInv, Inside, channels
<1>2. block = <<>> /\ Len(block) = 0
  BY <1>1, EmptyLen, FileCopyAssumption DEF ChunkInv, At, Least, TypeInv, ChildType
<1>3. pc'["child"] = "ready" /\ pc'["parent"] = pc["parent"] /\ PcType'
  BY PcMoves DEF Goto, Procs, ChildPcs
<1>4. ParentType' /\ ChildType'
  BY <1>1, TypesStay DEF setup, parent
<1>5. ChannelType'
  BY <1>1, TypesStay DEF channels
<1>6. HistoryType'
  BY <1>1, FileCopyAssumption DEF TypeInv, HistoryType, Quiet, history, FileError, Fault
<1>7. FlagType'
  BY DEF TypeInv, FlagType, setup, parent, Quiet, history, FileError
<1>8. ParentInv'
  BY <1>1, <1>3, ParentUntouched
<1>9. ChunkInv'
  BY <1>1, <1>2, <1>3 DEF ChunkInv, At, Exited, Inside
<1>10. data = <<>> /\ ack = 0 /\ ~Granted
  <2>1. /\ ack = 0 /\ pc["parent"] \notin {"header", "end"} /\ Accounted(0, Len(data))
    BY <1>1, <1>2 DEF Protocol, InsideInv, Inside
  <2>2. Owed \in Nat /\ Len(data) \in Nat /\ (data = <<>> <=> Len(data) = 0)
    BY EmptyLen DEF Owed, At, TypeInv, ParentType, ChannelType
  <2>3. pc["parent"] \in Over => Owed = 0
    BY DEF Owed, At, Over, Returned
  <2>. QED
    BY <2>1, <2>2, <2>3 DEF Accounted, Granted
<1>11. ~Granted'
  BY <1>3, <1>10 DEF Granted, Owed, At, parent
<1>12. Protocol'
  BY <1>1, <1>3, <1>10, <1>11 DEF Protocol, ReadyInv, BetweenInv, InsideInv, At, Inside
<1>. QED
  BY <1>3, <1>4, <1>5, <1>6, <1>7, <1>8, <1>9, <1>12 DEF TypeInv

-----------------------------------------------------------------------------
(* Either process may be killed *)

LEMMA KillStep ==
  ASSUME IndInv, NEW p \in Procs, Kill(p)
  PROVE  IndInv'
<1>. USE DEF Kill
<1>1. faults' \in 0 .. MaxFaults
  BY FileCopyAssumption DEF Fault, IndInv, TypeInv, HistoryType
<1>2. CASE p = "child"
  <2>1. pc["child"] # "unborn"
    BY <1>2 DEF Alive
  <2>. QED
    BY <1>1, <1>2, <2>1, ChildEnds DEF Exited, child
<1>3. CASE p = "parent"
  <2>1. pc' = [pc EXCEPT !["parent"] = "killed"] /\ pc'["parent"] = "killed"
        /\ pc'["child"] = pc["child"]
    BY <1>3, PcMoves DEF Ends, Goto, IndInv, Procs
  <2>2. ParentType' /\ FlagType'
    BY TypesStay DEF IndInv, setup, parent, child, TypeInv, FlagType
  <2>3. HistoryType'
    BY <1>1 DEF IndInv, TypeInv, HistoryType
  <2>4. ParentInv'
    BY <2>1 DEF IndInv, ParentInv, At, FifosRemoved, Returned
  <2>5. fds' \subseteq AllEnds("parent") \union AllEnds("child") /\ fifos' \subseteq Chans
        /\ met' \subseteq Chans
    BY DEF Ends, IndInv, TypeInv, ChannelType
  <2>. QED
    BY <2>1, <2>2, <2>3, <2>4, <2>5, ParentStays DEF Over, ParentPcs
<1>. QED
  BY <1>2, <1>3 DEF Procs

-----------------------------------------------------------------------------
(* The theorems *)

\* No step of either process, and no kill, breaks the invariant.
LEMMA NextInv == IndInv /\ [Next]_vars => IndInv'
<1>. SUFFICES ASSUME IndInv, [Next]_vars PROVE IndInv'
  OBVIOUS
<1>1. CASE ParentStep
  <2>1. UNCHANGED <<setup, fs, child>>
    BY <1>1 DEF ParentStep
  <2>2. CASE MakeChannels \/ MakeAckFifo \/ SetupFails \/ Fork
    BY <2>1, <2>2, MakeChannelsStep, MakeAckFifoStep, SetupFailsStep, ForkStep
  <2>3. CASE Opening("parent")
    BY <2>1, <2>3, ParentCloseUnusedStep, ParentOpenFifoStep DEF Opening
  <2>4. CASE \E c \in Chans : ParentOpenFails(c)
    BY <2>1, <2>4, ParentOpenFailsStep
  <2>5. CASE SkipFile \/ OpenFile \/ NoMoreFiles \/ FileSent
    BY <2>1, <2>5, SkipFileStep, OpenFileStep, NoMoreFilesStep, FileSentStep
  <2>6. CASE wait_ready("wait_ready", "header") \/ wait_ready("final_ready", "end")
    BY <2>1, <2>6, WaitReadyStep
  <2>7. CASE SendHeader \/ ReadBlock \/ ReadFails \/ SendData \/ SendEnd
    BY <2>1, <2>7, SendHeaderStep, ReadBlockStep, ReadFailsStep, SendDataStep, SendEndStep
  <2>8. CASE CloseEnds \/ WaitPid \/ Finish
    BY <2>1, <2>8, CloseEndsStep, WaitPidStep, FinishStep
  <2>. QED
    BY <1>1, <2>2, <2>3, <2>4, <2>5, <2>6, <2>7, <2>8 DEF ParentStep
<1>2. CASE ChildStep
  <2>1. CASE /\ Opening("child") \/ \E c \in Chans : ChildOpenFails(c)
             /\ UNCHANGED <<setup, fs, child>>
    BY <2>1, ChildOpeningStep, ChildOpenFailsStep
  <2>2. CASE child_loop
    <3>1. UNCHANGED <<setup, fifos, parent>>
      BY <2>2 DEF child_loop
    <3>. QED
      BY <2>2, <3>1, SendReadyStep, ReadHeaderStep, EndOfDataStep, CreateStep, CreateFailsStep,
        ReadDataStep, WriteBlockStep, WriteFailsStep, CloseCopyStep DEF child_loop
  <2>. QED
    BY <1>2, <2>1, <2>2 DEF ChildStep
<1>3. CASE \E p \in Procs : Kill(p)
  BY <1>3, KillStep
<1>4. CASE UNCHANGED vars
  <2>1. UNCHANGED <<named, files, pc, fds, met, data, ack, fifos, fs, i, size, remaining, buffer,
                    fatal_error, had_file_error, msg, left, block, out_fd, had_error,
                    failed, broken, faults>>
    BY <1>4 DEF vars, setup, channels, parent, child, history
  <2>2. TypeInv'
    BY <2>1, TypesStay DEF IndInv, TypeInv, channels
  <2>3. ParentInv' /\ ChunkInv'
    BY <2>1 DEF IndInv, ParentInv, ChunkInv, At, FifosRemoved, Copy
  <2>4. Protocol'
    BY <2>1 DEF IndInv, Protocol, ReadyInv, BetweenInv, InsideInv, Granted, Owed, Accounted, At
  <2>. QED
    BY <2>2, <2>3, <2>4 DEF IndInv
<1>. QED
  BY <1>1, <1>2, <1>3, <1>4 DEF Next

\* The invariant says what the runs check.
LEMMA InvMeans == IndInv => TypeOK /\ ChildInStep /\ FifosRemoved
<1>. SUFFICES ASSUME IndInv PROVE TypeOK /\ ChildInStep /\ FifosRemoved
  OBVIOUS
<1>. USE DEF IndInv
<1>1. TypeOK
  BY DEF TypeOK, TypeInv, PcType, ChannelType, ParentType, ChildType, HistoryType, FlagType
<1>2. At("child", "header") /\ data # <<>> => Head(data).type # "BYTE"
  BY DEF Protocol, ReadyInv, BetweenInv
<1>3. ASSUME pc["child"] \in Inside,
             NEW k \in 1 .. Least(left - Len(block), Len(data))
      PROVE  data[k].type = "BYTE"
  <2>1. Len(data) \in Nat /\ left - Len(block) \in Int
    BY EmptyLen DEF TypeInv, ChannelType, ChildType
  <2>2. k \in 1 .. Len(data)
    BY <2>1 DEF Least
  <2>. QED
    BY <1>3, <2>2 DEF Protocol, InsideInv
<1>4. ack <= 1 /\ (ack = 1 => data = <<>> /\ pc["child"] \in {"header"} \union Exited)
  BY DEF Protocol, ReadyInv
<1>5. ChildInStep
  BY <1>2, <1>3, <1>4 DEF ChildInStep, Inside
<1>. QED
  BY <1>1, <1>5 DEF ParentInv

\* Every counter of the two loops stays in its range (filecopy.c, the loops of
\* parent_send_file and child_loop), however long the files and the blocks are.
THEOREM TypeCorrect == Spec => []TypeOK
<1>1. Spec => []IndInv
  BY InitInv, NextInv, PTL DEF Spec
<1>. QED
  BY <1>1, InvMeans, PTL

\* The two processes never lose step: a header is read where one was written, and
\* no byte of a file is taken for one, whatever fails and whoever dies.
THEOREM InStep == Spec => []ChildInStep
<1>1. Spec => []IndInv
  BY InitInv, NextInv, PTL DEF Spec
<1>. QED
  BY <1>1, InvMeans, PTL

\* No FIFO is left whenever main returns, from any of its error paths.
THEOREM NoFifoLeft == Spec => []FifosRemoved
<1>1. Spec => []IndInv
  BY InitInv, NextInv, PTL DEF Spec
<1>. QED
  BY <1>1, InvMeans, PTL

-----------------------------------------------------------------------------
(* The contents of the files *)


\* Both ends of a process are open and it has not given up.
Works == {"next", "wait_ready", "header", "read", "write", "final_ready", "end",
          "ready", "create", "data"}
Gone  == {"close", "waitpid", "unlink"} \union Returned \union Exited

\* A process that works has a partner at the other end of both channels.
EndsInv ==
    /\ ~named =>
         /\ At("parent", "fork") => AllEnds("parent") \subseteq fds
         /\ \A p \in Procs :
              /\ pc[p] \notin {"mkfifo2", "open_ack", "wait_data", "wait_ack"}
              /\ pc[p] \in {"open_data"} \union Works =>
                   /\ \A c \in Chans : EndOf(p, c) \in fds
                   /\ pc[Peer(p)] \in {"open_data"} \union Works \union Gone
    /\ named =>
         \A p \in Procs :
            /\ \A c \in Chans : c \in met => EndOf(p, c) \in fds \/ pc[p] \in Gone
            /\ pc[p] \in Works => met = Chans
            /\ pc[p] \in {"open_ack", "wait_ack"} => "data" \in met

\* The parent has sent MSG_END, or will send nothing at all.
Closing == {"close", "waitpid", "unlink"} \union Returned

\* Unless something happened that breaks the transfer, both sides end with MSG_END.
OrderInv ==
    ~broken =>
        /\ pc["parent"] # "killed" /\ pc["child"] # "killed"
        /\ pc["child"] \in Exited => pc["parent"] \in Closing
        /\ pc["parent"] \in {"unlink"} \union Returned => pc["child"] \in Exited
        /\ pc["parent"] \in {"close", "waitpid"} /\ pc["child"] \notin Exited =>
              At("child", "header") /\ data # <<>> /\ Head(data).type = "END"
        /\ At("child", "header") /\ data # <<>> /\ Head(data).type = "END" =>
              pc["parent"] \in Closing
        /\ pc["parent"] \in {"final_ready", "end"} \union Closing => i > Len(files)

\* The flags say what went wrong.
StatusInv ==
    /\ failed # {} <=> had_error \/ had_file_error
    /\ ~broken =>
         /\ fatal_error <=> pc["parent"] \in {"unlink"} \union Returned /\ At("child", "exit1")
         /\ At("child", "exit0") => ~had_error
         /\ At("child", "exit1") => had_error
         /\ At("parent", "failure") => fatal_error \/ had_file_error
    /\ broken => \/ fatal_error
                 \/ pc["parent"] \in {"killed", "failure"}
                 \/ pc["child"] \in {"exit1", "killed"} /\ pc["parent"] \notin {"unlink", "success"}
    /\ At("parent", "success") => ~fatal_error /\ ~had_file_error

\* The child is about to read the header of a file.
Announced == At("child", "header") /\ data # <<>> /\ Head(data).type = "FILE"

\* What is sent are arguments, and what no copy overwrites stays as it was.
SourceInv ==
    /\ \A f \in FilesSet : Apart(f) => fs[f] = Content[f]
    /\ Announced => Head(data).arg \in FilesSet
    /\ pc["child"] \in Inside => msg.arg \in FilesSet

InTransit(f) ==
    \/ Announced /\ Head(data).arg = f
    \/ pc["child"] \in Inside /\ msg.arg = f

\* The parent's side of a transfer: what it read is what comes next in the file.
SenderInv ==
    ~broken =>
        /\ pc["parent"] \in {"wait_ready", "header", "read", "write"} /\ Apart(files[i]) =>
             /\ fs[files[i]] # NoFile /\ size = Len(fs[files[i]])
             /\ At("parent", "write") =>
                  \A k \in 1 .. Len(buffer) : buffer[k] = fs[files[i]][size - Owed + k]
        /\ Owed > 0 => InTransit(files[i])

\* The child's side: copy, chunk and channel follow each other in the file.
ReceiverInv ==
    ~broken =>
        /\ Announced /\ Apart(Head(data).arg) =>
             LET c == fs[Head(data).arg]
             IN /\ c # NoFile /\ c \in Seq(Bytes) /\ Head(data).size = Len(c)
                /\ \A k \in 1 .. Len(data) - 1 : data[k + 1].arg = c[k]
        /\ pc["child"] \in Inside /\ Apart(msg.arg) =>
             LET c    == fs[msg.arg]
                 done == Len(c) - left
             IN /\ c # NoFile /\ c \in Seq(Bytes) /\ done >= 0
                /\ At("child", "create") => done = 0
                /\ \A k \in 1 .. Len(block) : block[k] = c[done + k]
                /\ \A k \in 1 .. Len(data) : data[k].arg = c[done + Len(block) + k]
                /\ pc["child"] \in {"data", "write"} /\ msg.arg \notin failed =>
                     /\ out_fd /\ Len(fs[Copy]) = done
                     /\ \A k \in 1 .. done : fs[Copy][k] = c[k]

\* Arguments that were sent, the one in hand included.
Sent == IF pc["parent"] \in {"read", "write"} THEN i ELSE i - 1

\* What was sent is copied, in transit, or failed.
CopiedInv ==
    ~broken => \A k \in 1 .. Sent :
        Apart(files[k]) /\ files[k] \notin failed => Copied(files[k]) \/ InTransit(files[k])

ContentInv == EndsInv /\ OrderInv /\ StatusInv /\ SourceInv /\ SenderInv /\ ReceiverInv /\ CopiedInv

-----------------------------------------------------------------------------
(* Facts used by many steps *)

\* Unless the transfer is broken, a process that works is not alone.
LEMMA NotAlone ==
  ASSUME IndInv, EndsInv, OrderInv, ~broken
  PROVE  /\ pc["parent"] \in Works => Readers("data") # {} /\ Writers("ack") # {}
         /\ pc["child"] \in Works /\ (Readers("ack") = {} \/ Writers("data") = {}) =>
              At("child", "header") /\ data # <<>>
<1>1. pc["child"] \in ChildPcs /\ pc["parent"] \in ParentPcs
  BY DEF IndInv, TypeInv, PcType
<1>2. ASSUME NEW p \in Procs, pc[p] \in Works, pc[Peer(p)] \notin Gone
      PROVE  \A c \in Chans : EndOf(Peer(p), c) \in fds
  <2>1. Peer(p) \in Procs /\ Peer(Peer(p)) = p
    BY DEF Peer, Procs
  <2>2. CASE named
    BY <1>2, <2>1, <2>2 DEF EndsInv
  <2>3. CASE ~named
    BY <1>2, <2>1, <2>3 DEF EndsInv
  <2>. QED
    BY <2>2, <2>3
<1>3. ASSUME pc["parent"] \in Works
      PROVE  Readers("data") # {} /\ Writers("ack") # {}
  <2>1. pc["child"] \notin Gone
    BY <1>1, <1>3 DEF OrderInv, Closing, Works, Gone, Exited, Returned, ChildPcs
  <2>2. EndOf("child", "data") \in fds /\ EndOf("child", "ack") \in fds
    BY <1>2, <1>3, <2>1 DEF Procs, Peer, Chans
  <2>3. EndOf("child", "data") \in Readers("data") /\ EndOf("child", "ack") \in Writers("ack")
    BY <2>2 DEF EndOf, End, Readers, Writers
  <2>. QED
    BY <2>3
<1>4. ASSUME pc["child"] \in Works, Readers("ack") = {} \/ Writers("data") = {}
      PROVE  At("child", "header") /\ data # <<>>
  <2>1. pc["parent"] \in Gone
    <3>1. SUFFICES ASSUME pc["parent"] \notin Gone PROVE FALSE
      OBVIOUS
    <3>2. EndOf("parent", "data") \in fds /\ EndOf("parent", "ack") \in fds
      BY <1>2, <1>4, <3>1 DEF Procs, Peer, Chans
    <3>3. EndOf("parent", "data") \in Writers("data") /\ EndOf("parent", "ack") \in Readers("ack")
      BY <3>2 DEF EndOf, End, Readers, Writers
    <3>. QED
      BY <1>4, <3>3
  <2>2. pc["parent"] \in {"close", "waitpid", "unlink"} \union Returned
    BY <1>1, <2>1 DEF OrderInv, Works, Gone, Exited, Returned, ParentPcs
  <2>3. pc["child"] \notin Exited
    BY <1>4 DEF Works, Exited
  <2>4. At("child", "header") /\ data # <<>>
    BY <2>2, <2>3 DEF OrderInv
  <2>. QED
    BY <2>4
<1>. QED
  BY <1>3, <1>4

\* A process goes on, or stops, with the descriptors it had.
LEMMA EndsStay ==
  ASSUME IndInv, EndsInv, NEW p \in Procs, NEW l, pc' = [pc EXCEPT ![p] = l],
         UNCHANGED <<named, fds, met>>,
         (pc[p] \in Works /\ l \in Works) \/ l \in Gone
  PROVE  EndsInv'
<1>1. pc'[p] = l /\ \A q \in Procs : q # p => pc'[q] = pc[q]
  BY PcMoves DEF IndInv
<1>2. "parent" \in Procs /\ \A q \in Procs : Peer(q) \in Procs
  BY DEF Procs, Peer
<1>. QED
  BY <1>1, <1>2 DEF EndsInv, At, Works, Gone, Exited, Returned

\* A process ends and loses its descriptors.
LEMMA EndsLost ==
  ASSUME IndInv, EndsInv, NEW p \in Procs, NEW l \in Gone, Ends(p, l), UNCHANGED <<named, met>>
  PROVE  EndsInv'
<1>1. pc'[p] = l /\ \A q \in Procs : q # p => pc'[q] = pc[q]
  BY PcMoves DEF IndInv, Ends, Goto
<1>2. "parent" \in Procs /\ \A q \in Procs : Peer(q) \in Procs
  BY DEF Procs, Peer
<1>3. \A q \in Procs : q # p => \A c \in Chans : EndOf(q, c) \in fds => EndOf(q, c) \in fds'
  BY DEF Ends, EndOf, End
<1>4. At("parent", "fork")' => fds' = fds \/ p = "child"
  BY <1>1, <1>2 DEF At, Gone, Exited, Returned, Procs
<1>5. p = "child" => \A d \in AllEnds("parent") : d \in fds => d \in fds'
  BY DEF Ends, AllEnds, End
<1>. QED
  BY <1>1, <1>2, <1>3, <1>4, <1>5 DEF EndsInv, At, Works, Gone, Exited, Returned, Procs

\* A step that neither writes files nor touches the channel or the child.
LEMMA ReceiverStays ==
  ASSUME SourceInv, ReceiverInv, UNCHANGED <<files, fs, data, child>>,
         pc'["child"] = pc["child"], broken => broken', failed \subseteq failed'
  PROVE  /\ SourceInv' /\ ReceiverInv'
         /\ \A f : InTransit(f) => InTransit(f)'
<1>1. /\ FilesSet' = FilesSet /\ Announced' = Announced
      /\ \A f : Apart(f)' = Apart(f) /\ InTransit(f)' = InTransit(f)
  BY DEF FilesSet, Apart, Announced, InTransit, At, child
<1>2. SourceInv'
  BY <1>1 DEF SourceInv, child
<1>3. ReceiverInv'
  BY <1>1 DEF ReceiverInv, child, At, Copy, Apart
<1>. QED
  BY <1>1, <1>2, <1>3

\* What was sent stays copied, in transit or failed.
LEMMA CopiedStays ==
  ASSUME CopiedInv, UNCHANGED <<files, fs>>, broken => broken', failed \subseteq failed',
         Sent' = Sent, \A f : InTransit(f) => InTransit(f)'
  PROVE  CopiedInv'
BY DEF CopiedInv, Apart, Copied

\* A step of the parent that neither sends nor receives.
LEMMA ParentQuiet ==
  ASSUME IndInv, ContentInv, NEW l, pc' = [pc EXCEPT !["parent"] = l],
         UNCHANGED <<files, fs, data, child>>, broken => broken', failed \subseteq failed',
         EndsInv', OrderInv', StatusInv', SenderInv', ~broken' => Sent' = Sent
  PROVE  ContentInv'
<1>1. pc'["child"] = pc["child"]
  BY PcMoves DEF IndInv, Procs
<1>2. SourceInv' /\ ReceiverInv' /\ \A f : InTransit(f) => InTransit(f)'
  BY <1>1, ReceiverStays DEF ContentInv
<1>3. CopiedInv'
  <2>1. CASE broken'
    BY <2>1 DEF CopiedInv
  <2>2. CASE ~broken'
    BY <1>2, <2>2, CopiedStays DEF ContentInv
  <2>. QED
    BY <2>1, <2>2
<1>. QED
  BY <1>2, <1>3 DEF ContentInv

\* The same for a step that goes well.
LEMMA ParentCalm ==
  ASSUME IndInv, ContentInv, NEW l, pc' = [pc EXCEPT !["parent"] = l],
         UNCHANGED <<files, fs, data, child, failed, broken>>,
         EndsInv', OrderInv', StatusInv', SenderInv', Sent' = Sent
  PROVE  ContentInv'
<1>1. failed \subseteq failed' /\ (broken => broken')
  OBVIOUS
<1>. QED
  BY <1>1, ParentQuiet

-----------------------------------------------------------------------------
(* The initial states *)

LEMMA InitContent == Init => ContentInv
<1>. SUFFICES ASSUME Init PROVE ContentInv
  OBVIOUS
<1>1. pc["parent"] = "start" /\ pc["child"] = "unborn" /\ \A p \in Procs : pc[p] \in {"start", "unborn"}
  BY DEF Init, Procs
<1>2. EndsInv
  BY <1>1 DEF Init, EndsInv, At, Works
<1>3. OrderInv /\ StatusInv
  BY <1>1 DEF Init, OrderInv, StatusInv, At, Closing, Exited, Returned
<1>4. SourceInv /\ SenderInv /\ ReceiverInv
  BY <1>1 DEF Init, SourceInv, SenderInv, ReceiverInv, Owed, At, Announced, Inside
<1>5. CopiedInv
  BY <1>1 DEF Init, CopiedInv, Sent
<1>. QED
  BY <1>2, <1>3, <1>4, <1>5 DEF ContentInv

-----------------------------------------------------------------------------
(* Setting the channels up *)

LEMMA MakeChannelsContent ==
  ASSUME IndInv, ContentInv, MakeChannels \/ MakeAckFifo, UNCHANGED <<setup, fs, child>>
  PROVE  ContentInv'
<1>. USE DEF MakeChannels, MakeAckFifo, Goto, Quiet, setup, parent, child, history
<1>0. PICK l \in {"mkfifo2", "fork"} : pc' = [pc EXCEPT !["parent"] = l]
  OBVIOUS
<1>1. /\ pc'["parent"] = l /\ pc'["child"] = pc["child"] /\ pc["child"] = "unborn"
      /\ pc["parent"] \in {"start", "mkfifo2"}
      /\ \A p \in Procs : pc'[p] \in {"mkfifo2", "fork", "unborn"}
  BY <1>0, PcMoves DEF IndInv, ParentInv, At, Procs
<1>2. EndsInv'
  <2>1. "parent" \in Procs /\ "child" \in Procs
    BY DEF Procs
  <2>2. CASE named
    <3>1. \A p \in Procs, c \in Chans : c \in met => EndOf(p, c) \in fds
      BY <1>1, <2>2 DEF ContentInv, EndsInv, Gone, Exited, Returned, Procs
    <3>. QED
      BY <1>1, <2>2, <3>1 DEF EndsInv, Works, At
  <2>3. CASE ~named
    <3>1. At("parent", "start")
      BY <1>1, <2>1, <2>3 DEF ContentInv, EndsInv, At
    <3>2. fds' = AllEnds("parent") /\ l = "fork"
      BY <1>0, <1>1, <2>3, <3>1 DEF At
    <3>. QED
      BY <1>1, <2>3, <3>2 DEF EndsInv, Works, At, Procs
  <2>. QED
    BY <2>2, <2>3
<1>3. OrderInv' /\ StatusInv'
  BY <1>1 DEF ContentInv, OrderInv, StatusInv, At, Closing, Exited, Returned
<1>4. SenderInv'
  BY <1>1 DEF SenderInv, Owed, At
<1>5. Sent' = Sent
  BY <1>1 DEF Sent
<1>6. UNCHANGED <<files, fs, data, child>> /\ UNCHANGED <<failed, broken>>
  OBVIOUS
<1>. QED
  BY <1>0, <1>2, <1>3, <1>4, <1>5, <1>6, ParentQuiet

LEMMA SetupFailsContent ==
  ASSUME IndInv, ContentInv, SetupFails, UNCHANGED <<setup, fs, child>>
  PROVE  ContentInv'
<1>. USE DEF SetupFails, Ends, Goto, setup, parent, child
<1>1. pc'["parent"] = "failure" /\ pc'["child"] = pc["child"]
  BY PcMoves DEF IndInv, Procs
<1>2. EndsInv'
  BY EndsLost DEF ContentInv, Procs, Gone, Returned
<1>3. OrderInv' /\ StatusInv' /\ SenderInv'
  BY <1>1 DEF ContentInv, OrderInv, StatusInv, SenderInv, At
<1>. QED
  BY <1>2, <1>3, ParentQuiet

LEMMA ForkContent ==
  ASSUME IndInv, ContentInv, Fork, UNCHANGED <<setup, fs, child>>
  PROVE  ContentInv'
<1>. USE DEF Fork, Quiet, setup, parent, child, history
<1>1. /\ pc["parent"] = "fork" /\ pc["child"] = "unborn"
      /\ pc'["parent"] = "open_data" /\ pc'["child"] = "open_data"
      /\ \A p \in Procs : pc'[p] = "open_data"
  BY DEF IndInv, ParentInv, At, Procs
<1>2. ~named => \A p \in Procs, c \in Chans : EndOf(p, c) \in fds'
  <2>1. SUFFICES ASSUME ~named, NEW p \in Procs, NEW c \in Chans PROVE EndOf(p, c) \in fds'
    OBVIOUS
  <2>2. AllEnds("parent") \subseteq fds
    BY <1>1, <2>1 DEF ContentInv, EndsInv, At
  <2>3. EndOf("parent", c) \in fds
    BY <2>2, EndsTyped DEF Procs
  <2>4. End("parent", c, EndOf("child", c).end) \in fds
    BY <2>2 DEF AllEnds, EndOf, End, Chans
  <2>5. [End("parent", c, EndOf("child", c).end) EXCEPT !.proc = "child"] = EndOf("child", c)
    BY DEF EndOf, End
  <2>. QED
    BY <2>3, <2>4, <2>5 DEF Procs
<1>3. EndsInv'
  <2>1. \A p \in Procs : Peer(p) \in Procs
    BY DEF Peer, Procs
  <2>2. named => \A p \in Procs, c \in Chans : c \in met => EndOf(p, c) \in fds'
    BY <1>1 DEF ContentInv, EndsInv, Gone, Returned, Exited, Procs
  <2>. QED
    BY <1>1, <1>2, <2>1, <2>2 DEF EndsInv, At, Works
<1>4. OrderInv' /\ StatusInv' /\ SenderInv'
  BY <1>1 DEF ContentInv, OrderInv, StatusInv, SenderInv, Owed, At, Closing, Exited, Returned
<1>5. Sent' = Sent
  BY <1>1 DEF Sent
<1>6. ~Announced /\ ~Announced' /\ pc["child"] \notin Inside /\ pc'["child"] \notin Inside
  BY <1>1 DEF Announced, At, Inside
<1>7. SourceInv' /\ ReceiverInv'
  BY <1>6 DEF ContentInv, SourceInv, ReceiverInv, Apart, FilesSet, Inside
<1>8. CopiedInv'
  BY <1>5, <1>6 DEF ContentInv, CopiedInv, Apart, Copied, InTransit
<1>. QED
  BY <1>3, <1>4, <1>7, <1>8 DEF ContentInv

\* Opening leaves the two processes at labels of their own.
LEMMA OpeningContent ==
  ASSUME IndInv, ContentInv, NEW p \in Procs, Opening(p), UNCHANGED <<setup, fs, child>>
  PROVE  ContentInv'
<1>. USE DEF setup, parent, child, history, Quiet
<1>0. PICK l \in {"open_ack", "wait_data", "wait_ack", "ready", "next"} :
         /\ pc' = [pc EXCEPT ![p] = l]
         /\ l \in Works <=> l \in {"ready", "next"}
         /\ l = "ready" => p = "child"
         /\ l = "next" => p = "parent"
         /\ pc[p] \in {"open_data", "open_ack", "wait_data", "wait_ack"}
         /\ UNCHANGED <<data, ack, fifos, parent, failed, broken, faults>>
  <2>1. CASE CloseUnused(p)
    BY <2>1 DEF CloseUnused, Goto, At, Ready, Procs, Works
  <2>2. CASE \E c \in Chans : OpenFifo(p, c)
    BY <2>2 DEF OpenFifo, Goto, At, OpenAt, WaitAt, Opened, Ready, Procs, Works, Chans
  <2>3. CASE \E c \in Chans : OpenReturns(p, c)
    BY <2>3 DEF OpenReturns, Goto, At, WaitAt, Opened, Ready, channels, Procs, Works, Chans
  <2>. QED
    BY <2>1, <2>2, <2>3 DEF Opening
<1>1. /\ pc'[p] = l /\ \A q \in Procs : q # p => pc'[q] = pc[q]
      /\ \A q \in Procs : Peer(q) \in Procs /\ Peer(q) # q
      /\ "parent" \in Procs /\ "child" \in Procs
      /\ \A m : Goto(p, m) => m = l
  BY <1>0, PcMoves DEF IndInv, Procs, Peer, Goto
<1>2. EndsInv'
  <2>1. CASE CloseUnused(p)
    <3>1. /\ ~named /\ pc[p] = "open_data" /\ l \in {"ready", "next"}
          /\ UNCHANGED <<named, met>>
      BY <1>0, <1>1, <2>1 DEF CloseUnused, Goto, At, Ready
    <3>2. \A q \in Procs, c \in Chans : EndOf(q, c) \in fds => EndOf(q, c) \in fds'
      BY <2>1 DEF CloseUnused, EndOf, End, Chans, Procs
    <3>3. /\ ~At("parent", "fork")'
          /\ \A q \in Procs : pc'[q] \notin {"mkfifo2", "open_ack", "wait_data", "wait_ack"}
      <4>1. pc["parent"] # "fork"
        BY <1>1, <3>1 DEF ContentInv, EndsInv, Peer, Procs, Works, Gone, Exited, Returned
      <4>. QED
        BY <1>0, <1>1, <3>1, <4>1 DEF ContentInv, EndsInv, At, Works
    <3>4. ASSUME NEW q \in Procs, pc'[q] \in {"open_data"} \union Works
          PROVE  /\ \A c \in Chans : EndOf(q, c) \in fds'
                 /\ pc'[Peer(q)] \in {"open_data"} \union Works \union Gone
      <4>1. pc[q] \in {"open_data"} \union Works
        BY <1>1, <3>1, <3>4
      <4>2. /\ \A c \in Chans : EndOf(q, c) \in fds
            /\ pc[Peer(q)] \in {"open_data"} \union Works \union Gone
        BY <3>1, <4>1 DEF ContentInv, EndsInv
      <4>. QED
        BY <1>0, <1>1, <3>1, <3>2, <4>2
    <3>. QED
      BY <3>1, <3>3, <3>4 DEF EndsInv
  <2>2. ASSUME NEW c \in Chans, OpenFifo(p, c)
        PROVE  EndsInv'
    <3>1. /\ named /\ UNCHANGED named /\ fds' = fds \union {EndOf(p, c)}
          /\ c = "data" => pc[p] = "open_data"
          /\ c = "ack" => pc[p] = "open_ack"
          /\ IF EndOf(Peer(p), c) \in fds THEN met' = met \union {c} /\ l = Opened(p, c)
             ELSE met' = met /\ l = WaitAt(c)
      BY <1>0, <1>1, <2>2 DEF OpenFifo, Goto, At, OpenAt, Chans
    <3>2. c \in {"data", "ack"} /\ met \subseteq Chans
      BY DEF Chans, IndInv, TypeInv, ChannelType
    <3>3. \A q \in Procs, d \in Chans : d \in met' => EndOf(q, d) \in fds' \/ pc'[q] \in Gone
      <4>1. SUFFICES ASSUME NEW q \in Procs, NEW d \in Chans, d \in met'
                     PROVE  EndOf(q, d) \in fds' \/ pc'[q] \in Gone
        OBVIOUS
      <4>2. CASE d \in met
        BY <1>0, <1>1, <3>1, <4>2 DEF ContentInv, EndsInv, Gone, Exited, Returned
      <4>3. CASE d \notin met
        BY <1>1, <3>1, <4>1, <4>3 DEF Procs, Peer
      <4>. QED
        BY <4>2, <4>3
    <3>4. \A q \in Procs : pc'[q] \in Works => met' = Chans
      BY <1>0, <1>1, <3>1, <3>2 DEF ContentInv, EndsInv, Opened, WaitAt, Ready, Chans, Works
    <3>5. \A q \in Procs : pc'[q] \in {"open_ack", "wait_ack"} => "data" \in met'
      BY <1>0, <1>1, <3>1, <3>2 DEF ContentInv, EndsInv, Opened, WaitAt, Ready, Chans
    <3>. QED
      BY <3>1, <3>3, <3>4, <3>5 DEF EndsInv
  <2>3. ASSUME NEW c \in Chans, OpenReturns(p, c)
        PROVE  EndsInv'
    <3>1. /\ UNCHANGED <<named, fds, met>> /\ c \in met /\ pc[p] = WaitAt(c) /\ l = Opened(p, c)
          /\ c \in {"data", "ack"} /\ met \subseteq Chans
      BY <1>0, <1>1, <2>3 DEF OpenReturns, Goto, At, channels, Chans, IndInv, TypeInv, ChannelType
    <3>2. named /\ (c = "ack" => "data" \in met)
      BY <3>1 DEF ContentInv, EndsInv, WaitAt
    <3>3. \A q \in Procs, d \in Chans : d \in met => EndOf(q, d) \in fds \/ pc'[q] \in Gone
      BY <1>1, <3>1, <3>2 DEF ContentInv, EndsInv, WaitAt, Gone, Exited, Returned
    <3>4. \A q \in Procs : pc'[q] \in Works => met = Chans
      BY <1>0, <1>1, <3>1, <3>2 DEF ContentInv, EndsInv, Opened, Ready, Chans, Works
    <3>5. \A q \in Procs : pc'[q] \in {"open_ack", "wait_ack"} => "data" \in met
      BY <1>0, <1>1, <3>1, <3>2 DEF ContentInv, EndsInv, Opened, Ready
    <3>. QED
      BY <3>1, <3>2, <3>3, <3>4, <3>5 DEF EndsInv
  <2>. QED
    BY <2>1, <2>2, <2>3 DEF Opening
<1>3. /\ pc["parent"] # pc'["parent"] => pc["parent"] \in Early /\ pc'["parent"] \in Early \union {"next"}
      /\ pc["child"] # pc'["child"] => pc["child"] \in NotYet /\ pc'["child"] \in NotYet
  BY <1>0, <1>1 DEF Early, NotYet, Procs
<1>4. OrderInv' /\ StatusInv'
  BY <1>0, <1>3 DEF ContentInv, OrderInv, StatusInv, At, Closing, Exited, Returned, Early, NotYet
<1>5. Sent' = Sent /\ (pc["parent"] # pc'["parent"] => Owed' = 0)
      /\ (pc["parent"] = pc'["parent"] => Owed' = Owed)
  BY <1>0, <1>3 DEF Sent, Owed, At, Early
<1>6. Announced' = Announced /\ FilesSet' = FilesSet
      /\ \A f : Apart(f)' = Apart(f) /\ InTransit(f)' = InTransit(f)
  BY <1>0, <1>3 DEF Announced, FilesSet, Apart, InTransit, At, NotYet, Inside
<1>7. SourceInv' /\ SenderInv' /\ ReceiverInv'
  BY <1>0, <1>3, <1>5, <1>6 DEF ContentInv, SourceInv, SenderInv, ReceiverInv, At, Copy, NotYet,
    Inside, Early, Apart, InTransit
<1>8. CopiedInv'
  BY <1>0, <1>5, <1>6, CopiedStays DEF ContentInv
<1>. QED
  BY <1>2, <1>4, <1>7, <1>8 DEF ContentInv

LEMMA OpenFailsContent ==
  ASSUME IndInv, ContentInv, NEW c \in Chans, ParentOpenFails(c) \/ ChildOpenFails(c),
         UNCHANGED <<setup, fs, child>>
  PROVE  ContentInv'
<1>. USE DEF setup, parent, child, ContentInv
<1>1. CASE ParentOpenFails(c)
  <2>. USE <1>1 DEF ParentOpenFails
  <2>1. pc'["parent"] = "failure" /\ pc'["child"] \in Exited /\ broken'
    BY DEF IndInv, TypeInv, PcType, Procs, Exited
  <2>2. EndsInv'
    <3>1. named'
      OBVIOUS
    <3>2. \A p \in Procs : pc'[p] \in Gone /\ pc'[p] \notin Works
                         /\ pc'[p] \notin {"open_ack", "wait_ack"}
      BY <2>1 DEF Procs, Exited, Gone, Returned, Works
    <3>. QED
      BY <3>1, <3>2 DEF EndsInv
  <2>3. OrderInv' /\ StatusInv' /\ SenderInv' /\ CopiedInv' /\ ReceiverInv'
    BY <2>1 DEF OrderInv, StatusInv, SenderInv, CopiedInv, ReceiverInv, At
  <2>4. SourceInv'
    BY <2>1 DEF SourceInv, Announced, Apart, FilesSet, At, Exited, Inside
  <2>. QED
    BY <2>2, <2>3, <2>4
<1>2. CASE ChildOpenFails(c)
  <2>. USE <1>2 DEF ChildOpenFails
  <2>1. pc'["child"] = "exit1" /\ pc'["parent"] = pc["parent"] /\ broken'
        /\ pc["child"] \in {"open_data", "open_ack"}
    BY PcMoves DEF IndInv, Procs, Ends, Goto, At, OpenAt
  <2>2. EndsInv'
    BY EndsLost DEF Procs, Gone, Exited
  <2>3. OrderInv' /\ SenderInv' /\ CopiedInv' /\ ReceiverInv'
    BY <2>1 DEF OrderInv, SenderInv, CopiedInv, ReceiverInv
  <2>4. StatusInv'
    BY <2>1 DEF StatusInv, At, OrderInv, Exited, Returned
  <2>5. SourceInv'
    BY <2>1 DEF SourceInv, Announced, Apart, FilesSet, At, Inside
  <2>. QED
    BY <2>2, <2>3, <2>4, <2>5
<1>. QED
  BY <1>1, <1>2

-----------------------------------------------------------------------------
(* The parent between two messages *)

LEMMA FatalContent ==
  ASSUME IndInv, ContentInv, Fatal, pc["parent"] \in Works, broken',
         UNCHANGED <<setup, fs, child, fds, met, data, had_file_error, failed>>
  PROVE  ContentInv'
<1>1. /\ pc' = [pc EXCEPT !["parent"] = "close"] /\ fatal_error' = TRUE
      /\ pc'["parent"] = "close" /\ pc'["child"] = pc["child"]
  BY PcMoves DEF IndInv, Procs, Fatal, Goto
<1>2. EndsInv'
  BY <1>1, EndsStay DEF ContentInv, Gone, Procs, setup
<1>3. OrderInv' /\ StatusInv' /\ SenderInv'
  BY <1>1 DEF ContentInv, OrderInv, StatusInv, SenderInv, At, child
<1>. QED
  BY <1>1, <1>2, <1>3, ParentQuiet DEF setup

LEMMA SkipFileContent ==
  ASSUME IndInv, ContentInv, SkipFile, UNCHANGED <<setup, fs, child>>
  PROVE  ContentInv'
<1>. USE DEF SkipFile, FileError, Fault, channels, setup
<1>1. pc["parent"] = "next" /\ i \in Nat /\ i >= 1 /\ UNCHANGED <<pc, broken, data, files, named, fds, met>>
      /\ failed' = failed \union {files[i]} /\ i' = i + 1 /\ had_file_error' = TRUE
  BY DEF At, IndInv, TypeInv, ParentType
<1>2. EndsInv'
  BY <1>1 DEF ContentInv, EndsInv, At
<1>3. OrderInv'
  BY <1>1 DEF ContentInv, OrderInv, At, Closing, Returned, child
<1>4. StatusInv'
  BY <1>1 DEF ContentInv, StatusInv, At, child
<1>5. SenderInv'
  BY <1>1 DEF SenderInv, Owed, At
<1>6. SourceInv' /\ ReceiverInv' /\ \A f : InTransit(f) => InTransit(f)'
  BY <1>1, ReceiverStays DEF ContentInv
<1>7. CopiedInv'
  <2>1. SUFFICES ASSUME ~broken', NEW k \in 1 .. Sent', Apart(files[k])', files[k] \notin failed'
                 PROVE  Copied(files[k])' \/ InTransit(files[k])'
    BY <1>1 DEF CopiedInv
  <2>2. k \in 1 .. Sent /\ Apart(files[k]) /\ files[k] \notin failed /\ ~broken
    BY <1>1, <2>1 DEF Sent, Apart
  <2>3. Copied(files[k]) \/ InTransit(files[k])
    BY <2>2 DEF ContentInv, CopiedInv
  <2>. QED
    BY <1>6, <2>3 DEF Copied
<1>. QED
  BY <1>2, <1>3, <1>4, <1>5, <1>6, <1>7 DEF ContentInv

LEMMA OpenFileContent ==
  ASSUME IndInv, ContentInv, OpenFile, UNCHANGED <<setup, fs, child>>
  PROVE  ContentInv'
<1>. USE DEF OpenFile, Goto, Quiet, channels, setup, history
<1>1. pc' = [pc EXCEPT !["parent"] = "wait_ready"] /\ pc'["parent"] = "wait_ready"
      /\ pc'["child"] = pc["child"] /\ pc["parent"] = "next"
      /\ UNCHANGED <<named, files, fds, met, fs, data, child, failed, broken, i>>
  BY PcMoves DEF IndInv, Procs, At
<1>2. EndsInv'
  BY <1>1, EndsStay DEF ContentInv, Works, Procs
<1>3. OrderInv' /\ StatusInv'
  BY <1>1 DEF ContentInv, OrderInv, StatusInv, At, Closing, Returned, child
<1>4. SenderInv'
  BY <1>1 DEF SenderInv, Owed, At
<1>5. Sent' = Sent
  BY <1>1 DEF Sent
<1>. QED
  BY <1>1, <1>2, <1>3, <1>4, <1>5, ParentCalm

LEMMA NoMoreFilesContent ==
  ASSUME IndInv, ContentInv, NoMoreFiles, UNCHANGED <<setup, fs, child>>
  PROVE  ContentInv'
<1>. USE DEF NoMoreFiles, Goto, Quiet, channels, setup, history, parent
<1>1. pc' = [pc EXCEPT !["parent"] = "final_ready"] /\ pc'["parent"] = "final_ready"
      /\ pc'["child"] = pc["child"] /\ pc["parent"] = "next"
      /\ UNCHANGED <<named, files, fds, met, fs, data, child, failed, broken, i>>
  BY PcMoves DEF IndInv, Procs, At
<1>2. EndsInv'
  BY <1>1, EndsStay DEF ContentInv, Works, Procs
<1>3. OrderInv' /\ StatusInv'
  BY <1>1 DEF ContentInv, OrderInv, StatusInv, At, Closing, Returned, child
<1>4. SenderInv'
  BY <1>1 DEF SenderInv, Owed, At
<1>5. Sent' = Sent
  BY <1>1 DEF Sent
<1>. QED
  BY <1>1, <1>2, <1>3, <1>4, <1>5, ParentCalm

LEMMA WaitReadyContent ==
  ASSUME IndInv, ContentInv, NEW at, NEW l,
         <<at, l>> \in {<<"wait_ready", "header">>, <<"final_ready", "end">>},
         wait_ready(at, l), UNCHANGED <<setup, fs, child>>
  PROVE  ContentInv'
<1>. USE DEF wait_ready, Quiet, setup, history
<1>0. pc["parent"] = at /\ at \in {"wait_ready", "final_ready"} /\ l \in {"header", "end"}
      /\ (at = "wait_ready" <=> l = "header")
  BY DEF At
<1>1. CASE Writers("ack") = {} /\ Fatal
  <2>1. broken
    BY <1>0, <1>1, NotAlone DEF ContentInv, Works
  <2>. QED
    BY <1>0, <1>1, <2>1, FatalContent DEF Works
<1>2. CASE Goto("parent", l) /\ UNCHANGED fatal_error
  <2>1. pc'["parent"] = l /\ pc'["child"] = pc["child"] /\ pc' = [pc EXCEPT !["parent"] = l]
        /\ UNCHANGED <<named, files, fds, met, fs, data, child, failed, broken, i, size,
                       fatal_error, had_file_error>>
    BY <1>0, <1>2, PcMoves DEF IndInv, Procs, Goto
  <2>2. EndsInv'
    BY <1>0, <2>1, EndsStay DEF ContentInv, Works, Procs
  <2>3. OrderInv' /\ StatusInv'
    BY <1>0, <2>1 DEF ContentInv, OrderInv, StatusInv, At, Closing, Returned, child
  <2>4. SenderInv'
    BY <1>0, <2>1 DEF ContentInv, SenderInv, Owed, At, Apart
  <2>5. Sent' = Sent
    BY <1>0, <2>1 DEF Sent
  <2>. QED
    BY <2>1, <2>2, <2>3, <2>4, <2>5, ParentCalm
<1>. QED
  BY <1>1, <1>2

LEMMA FileSentContent ==
  ASSUME IndInv, ContentInv, FileSent, UNCHANGED <<setup, fs, child>>
  PROVE  ContentInv'
<1>. USE DEF FileSent, Goto, Quiet, channels, setup, history
<1>1. pc' = [pc EXCEPT !["parent"] = "next"] /\ pc'["parent"] = "next"
      /\ pc'["child"] = pc["child"] /\ pc["parent"] = "read"
      /\ UNCHANGED <<named, files, fds, met, fs, data, child, failed, broken>> /\ i' = i + 1
  BY PcMoves DEF IndInv, Procs, At
<1>0. i \in Nat
  BY DEF IndInv, TypeInv, ParentType
<1>2. EndsInv'
  BY <1>1, EndsStay DEF ContentInv, Works, Procs
<1>3. OrderInv' /\ StatusInv'
  BY <1>1 DEF ContentInv, OrderInv, StatusInv, At, Closing, Returned, child
<1>4. SenderInv'
  BY <1>1 DEF SenderInv, Owed, At
<1>5. Sent' = Sent
  BY <1>0, <1>1 DEF Sent
<1>. QED
  BY <1>1, <1>2, <1>3, <1>4, <1>5, ParentCalm

LEMMA CloseEndsContent ==
  ASSUME IndInv, ContentInv, CloseEnds, UNCHANGED <<setup, fs, child>>
  PROVE  ContentInv'
<1>. USE DEF CloseEnds, Quiet, setup, history, parent
<1>1. pc' = [pc EXCEPT !["parent"] = "waitpid"]
      /\ pc'["parent"] = "waitpid" /\ pc'["child"] = pc["child"] /\ pc["parent"] = "close"
      /\ UNCHANGED <<named, files, met, fs, data, child, failed, broken, i, fatal_error, had_file_error>>
  BY PcMoves DEF IndInv, Procs, At, Ends, Goto
<1>2. EndsInv'
  BY <1>1, EndsLost DEF ContentInv, Gone, Procs
<1>3. OrderInv' /\ StatusInv'
  BY <1>1 DEF ContentInv, OrderInv, StatusInv, At, Closing, Returned, child
<1>4. SenderInv'
  BY <1>1 DEF SenderInv, Owed, At
<1>5. Sent' = Sent
  BY <1>1 DEF Sent
<1>. QED
  BY <1>1, <1>2, <1>3, <1>4, <1>5, ParentCalm

LEMMA WaitPidContent ==
  ASSUME IndInv, ContentInv, WaitPid, UNCHANGED <<setup, fs, child>>
  PROVE  ContentInv'
<1>. USE DEF WaitPid, Goto, Quiet, channels, setup, history
<1>1. pc' = [pc EXCEPT !["parent"] = "unlink"] /\ pc'["parent"] = "unlink"
      /\ pc'["child"] = pc["child"] /\ pc["parent"] = "waitpid"
      /\ UNCHANGED <<named, files, fds, met, fs, data, child, failed, broken, i, had_file_error>>
      /\ pc["child"] \in Exited
  BY PcMoves DEF IndInv, Procs, At
<1>2. EndsInv'
  BY <1>1, EndsStay DEF ContentInv, Gone, Procs
<1>3. OrderInv'
  BY <1>1 DEF ContentInv, OrderInv, At, Closing, Returned, child
<1>4. StatusInv'
  <2>1. fatal_error' = (fatal_error \/ pc["child"] # "exit0")
    OBVIOUS
  <2>2. had_error' = had_error
    BY DEF child
  <2>3. CASE broken
    <3>1. fatal_error \/ pc["child"] \in {"exit1", "killed"}
      BY <1>1, <2>3 DEF ContentInv, StatusInv
    <3>2. fatal_error'
      BY <2>1, <3>1
    <3>. QED
      BY <1>1, <2>2, <2>3, <3>2 DEF ContentInv, StatusInv, At
  <2>4. CASE ~broken
    <3>1. ~fatal_error /\ pc["child"] \in {"exit0", "exit1"}
      BY <1>1, <2>4 DEF ContentInv, OrderInv, StatusInv, At, Returned, Exited
    <3>2. fatal_error' <=> pc["child"] = "exit1"
      BY <2>1, <3>1
    <3>. QED
      BY <1>1, <2>2, <2>4, <3>2 DEF ContentInv, StatusInv, At
  <2>. QED
    BY <2>3, <2>4
<1>5. SenderInv'
  BY <1>1 DEF SenderInv, Owed, At
<1>6. Sent' = Sent
  BY <1>1 DEF Sent
<1>. QED
  BY <1>1, <1>2, <1>3, <1>4, <1>5, <1>6, ParentCalm

LEMMA FinishContent ==
  ASSUME IndInv, ContentInv, Finish, UNCHANGED <<setup, fs, child>>
  PROVE  ContentInv'
<1>. USE DEF Finish, Goto, Quiet, setup, history, parent
<1>1. pc' = [pc EXCEPT !["parent"] = Status]
      /\ pc'["parent"] = Status /\ pc'["child"] = pc["child"] /\ pc["parent"] = "unlink"
      /\ UNCHANGED <<named, files, fds, met, fs, data, child, failed, broken, i, fatal_error, had_file_error>>
  BY PcMoves DEF IndInv, Procs, At
<1>2. Status \in Returned /\ (Status = "failure" <=> fatal_error \/ had_file_error)
      /\ (Status = "success" <=> ~fatal_error /\ ~had_file_error)
  BY DEF Status, Returned
<1>3. EndsInv'
  BY <1>1, <1>2, EndsStay DEF ContentInv, Gone, Procs
<1>4. OrderInv'
  BY <1>1, <1>2 DEF ContentInv, OrderInv, At, Closing, Returned, child
<1>5. StatusInv'
  BY <1>1, <1>2 DEF ContentInv, StatusInv, At, Closing, Returned, Exited, child
<1>6. SenderInv'
  BY <1>1, <1>2 DEF SenderInv, Owed, At, Returned
<1>7. Sent' = Sent
  BY <1>1, <1>2 DEF Sent, Returned
<1>. QED
  BY <1>1, <1>3, <1>4, <1>5, <1>6, <1>7, ParentCalm

\* A block holds the bytes at its place in the file.
LEMMA BlockHolds ==
  ASSUME NEW s \in Seq(Bytes), NEW pos \in Nat, NEW n \in Nat
  PROVE  LET got == SubSeq(s, pos + 1, Least(pos + n, Len(s)))
         IN \A k \in 1 .. Len(got) : got[k] = s[pos + k]
<1>1. Least(pos + n, Len(s)) \in Int /\ Least(pos + n, Len(s)) <= Len(s)
  BY EmptyLen DEF Least
<1>2. \A k \in pos + 1 .. Least(pos + n, Len(s)) : s[k] \in Bytes
  BY <1>1, ElementOfSeq
<1>. QED
  BY <1>1, <1>2, SubSeqProperties

LEMMA ReadBlockContent ==
  ASSUME IndInv, ContentInv, ReadBlock, UNCHANGED <<setup, fs, child>>
  PROVE  ContentInv'
<1>. DEFINE want == Least(BLOCK_SIZE, remaining)
            pos  == size - remaining
            got  == SubSeq(fs[files[i]], pos + 1, Least(pos + want, Len(fs[files[i]])))
<1>. USE DEF ReadBlock, setup, channels
<1>1. pc["parent"] = "read" /\ remaining <= size /\ remaining \in Nat /\ size \in Nat
      /\ fs[files[i]] \in Seq(Bytes) /\ i <= Len(files)
  BY DEF At, IndInv, ParentInv, TypeInv, ParentType
<1>2. want \in Nat /\ want <= remaining /\ pos \in Nat
  BY <1>1, FileCopyAssumption DEF Least
<1>3. /\ got \in Seq(Bytes) /\ Len(got) \in Nat
      /\ \A k \in 1 .. Len(got) : got[k] = fs[files[i]][pos + k]
  BY <1>1, <1>2, BlockRead, BlockHolds
<1>4. CASE got = <<>>
  <2>1. Fatal /\ broken' = TRUE
    BY <1>4
  <2>. QED
    BY <1>1, <2>1, FatalContent DEF Works
<1>5. CASE got # <<>>
  <2>1. /\ buffer' = got /\ remaining' = remaining - Len(got)
        /\ pc' = [pc EXCEPT !["parent"] = "write"] /\ UNCHANGED <<fatal_error, broken>>
        /\ UNCHANGED <<named, files, fds, met, fs, data, child, failed, i, size, had_file_error>>
    BY <1>5 DEF Goto
  <2>2. pc'["parent"] = "write" /\ pc'["child"] = pc["child"]
    BY <2>1, PcMoves DEF IndInv, Procs
  <2>. HIDE DEF got, want, ReadBlock
  <2>3. EndsInv'
    BY <1>1, <2>1, EndsStay DEF ContentInv, Works, Procs
  <2>4. OrderInv' /\ StatusInv'
    BY <1>1, <2>1, <2>2 DEF ContentInv, OrderInv, StatusInv, At, Closing, Returned, child
  <2>5. Owed' = remaining /\ Owed = remaining
    BY <1>1, <1>3, <2>1, <2>2 DEF Owed, At
  <2>6. Sent' = Sent
    BY <1>1, <2>1, <2>2 DEF Sent
  <2>7. InTransit(files[i])' = InTransit(files[i])
    BY <2>1, <2>2 DEF InTransit, Announced, At, child
  <2>8. Apart(files[i])' = Apart(files[i])
    BY <2>1 DEF Apart
  <2>9. \A k \in 1 .. Len(buffer') : buffer'[k] = fs'[files'[i']][size' - Owed' + k]
    BY <1>3, <2>1, <2>5
  <2>10. SenderInv'
    BY <1>1, <2>1, <2>2, <2>5, <2>7, <2>8, <2>9 DEF ContentInv, SenderInv
  <2>. QED
    BY <2>1, <2>3, <2>4, <2>6, <2>10, ParentCalm
<1>. QED
  BY <1>4, <1>5

LEMMA ReadFailsContent ==
  ASSUME IndInv, ContentInv, ReadFails, UNCHANGED <<setup, fs, child>>
  PROVE  ContentInv'
<1>1. pc["parent"] \in Works
  BY DEF ReadFails, At, Works
<1>. QED
  BY <1>1, FatalContent DEF ReadFails, channels

-----------------------------------------------------------------------------
(* The parent sends *)

\* A header is alone in the channel, and the child waits for it.
LEMMA HeaderAlone ==
  ASSUME IndInv, OrderInv, pc["parent"] \in {"header", "end"}, NEW u \in Units,
         data' = Append(data, u)
  PROVE  /\ pc["child"] \notin Inside /\ (~broken => At("child", "header"))
         /\ At("child", "header") =>
              data = <<>> /\ data' # <<>> /\ Len(data') = 1 /\ Head(data') = u
<1>. USE DEF IndInv, Protocol
<1>1. Granted /\ pc["child"] \notin NotYet \union Inside /\ ack = 0
  BY DEF Granted, ReadyInv, InsideInv
<1>2. At("child", "header") => data = <<>>
  BY <1>1 DEF BetweenInv
<1>3. ASSUME At("child", "header")
      PROVE  data' # <<>> /\ Len(data') = 1 /\ Head(data') = u
  BY <1>2, <1>3, TakeFirst, PutLast, EmptyLen DEF TypeInv, ChannelType
<1>4. ~broken => pc["child"] \notin Exited
  BY DEF OrderInv, Closing, Returned
<1>5. ~broken => At("child", "header")
  BY <1>1, <1>4 DEF TypeInv, PcType, ChildPcs, NotYet, Inside, Exited, At
<1>. QED
  BY <1>1, <1>2, <1>3, <1>5

LEMMA SendHeaderContent ==
  ASSUME IndInv, ContentInv, SendHeader, UNCHANGED <<setup, fs, child>>
  PROVE  ContentInv'
<1>. USE DEF SendHeader, setup
<1>1. pc["parent"] = "header" /\ files[i] \in Names /\ fs[files[i]] \in Seq(Bytes)
      /\ i \in DOMAIN files /\ i \in Nat /\ size \in Nat
  BY EmptyLen DEF At, IndInv, ParentInv, TypeInv, ParentType
<1>2. CASE Readers("data") = {} /\ Fatal /\ UNCHANGED data
  <2>1. broken
    BY <1>1, <1>2, NotAlone DEF ContentInv, Works
  <2>. QED
    BY <1>1, <1>2, <2>1, FatalContent DEF Works, Quiet, history
<1>3. CASE /\ data' = Append(data, Header("FILE", files[i], size))
           /\ Goto("parent", "read") /\ UNCHANGED fatal_error
  <2>. DEFINE u == Header("FILE", files[i], size)
  <2>0. u \in Units /\ u.type = "FILE" /\ u.arg = files[i] /\ u.size = size
    BY <1>1 DEF Units, Headers, Header
  <2>. HIDE DEF u
  <2>1. /\ pc' = [pc EXCEPT !["parent"] = "read"] /\ data' = Append(data, u) /\ remaining' = size
        /\ UNCHANGED <<named, files, fds, met, fs, child, failed, broken, i, size, had_file_error,
                       fatal_error>>
    BY <1>3 DEF Goto, Quiet, history, u
  <2>2. pc'["parent"] = "read" /\ pc'["child"] = pc["child"]
    BY <2>1, PcMoves DEF IndInv, Procs
  <2>. HIDE DEF SendHeader
  <2>3. /\ pc["child"] \notin Inside /\ (~broken => At("child", "header"))
        /\ At("child", "header") => data = <<>> /\ data' # <<>> /\ Len(data') = 1 /\ Head(data') = u
    BY <1>1, <2>0, <2>1, HeaderAlone DEF ContentInv
  <2>4. At("child", "header")' = At("child", "header")
    BY <2>2 DEF At
  <2>5. EndsInv'
    BY <1>1, <2>1, EndsStay DEF ContentInv, Works, Procs
  <2>6. OrderInv' /\ StatusInv'
    <3>1. OrderInv'
      BY <1>1, <2>0, <2>1, <2>2, <2>3, <2>4 DEF ContentInv, OrderInv, At, Closing, Returned
    <3>2. StatusInv'
      BY <1>1, <2>1, <2>2 DEF ContentInv, StatusInv, At, Returned, child
    <3>. QED
      BY <3>1, <3>2
  <2>7. files[i] \in FilesSet /\ FilesSet' = FilesSet /\ \A f : Apart(f)' = Apart(f)
    BY <1>1, <2>1 DEF FilesSet, Apart
  <2>8. SourceInv'
    BY <2>0, <2>1, <2>2, <2>3, <2>4, <2>7 DEF ContentInv, SourceInv, Announced
  <2>9. ~broken => InTransit(files[i])'
    BY <2>0, <2>1, <2>3, <2>4 DEF InTransit, Announced
  <2>10. SenderInv'
    BY <1>1, <2>1, <2>2, <2>7, <2>9 DEF ContentInv, SenderInv, At
  <2>11. ReceiverInv'
    <3>1. SUFFICES ASSUME ~broken', Announced', Apart(Head(data').arg)
                   PROVE  /\ fs[files[i]] # NoFile /\ size = Len(fs[files[i]])
                          /\ Head(data') = u /\ Len(data') = 1
      BY <1>1, <2>0, <2>1, <2>2, <2>3, <2>7 DEF ReceiverInv
    <3>2. At("child", "header") /\ ~broken
      BY <2>1, <2>4, <3>1 DEF Announced
    <3>. QED
      BY <1>1, <2>0, <2>3, <3>1, <3>2 DEF ContentInv, SenderInv
  <2>12. CopiedInv'
    <3>1. SUFFICES ASSUME ~broken, NEW k \in 1 .. i, Apart(files[k]), files[k] \notin failed
                   PROVE  Copied(files[k]) \/ InTransit(files[k])'
      BY <2>1, <2>2, <2>7 DEF CopiedInv, Sent, Copied
    <3>2. CASE k = i
      BY <2>1, <2>9, <3>1, <3>2
    <3>3. CASE k # i
      <4>1. k \in 1 .. Sent
        BY <1>1, <3>3 DEF Sent
      <4>2. ~InTransit(files[k])
        BY <2>3 DEF InTransit, Announced
      <4>. QED
        BY <3>1, <4>1, <4>2 DEF ContentInv, CopiedInv
    <3>. QED
      BY <3>2, <3>3
  <2>. QED
    BY <2>5, <2>6, <2>8, <2>10, <2>11, <2>12 DEF ContentInv
<1>. QED
  BY <1>2, <1>3 DEF SendUnit

LEMMA SendEndContent ==
  ASSUME IndInv, ContentInv, SendEnd, UNCHANGED <<setup, fs, child>>
  PROVE  ContentInv'
<1>. USE DEF SendEnd, setup
<1>1. pc["parent"] = "end"
  BY DEF At
<1>2. CASE Readers("data") = {} /\ Fatal /\ UNCHANGED data
  <2>1. broken
    BY <1>1, <1>2, NotAlone DEF ContentInv, Works
  <2>. QED
    BY <1>1, <1>2, <2>1, FatalContent DEF Works, Quiet, history
<1>3. CASE /\ data' = Append(data, Header("END", 0, 0))
           /\ Goto("parent", "close") /\ UNCHANGED fatal_error
  <2>. DEFINE u == Header("END", 0, 0)
  <2>0. u \in Units /\ u.type = "END"
    BY DEF Units, Headers, Header
  <2>. HIDE DEF u
  <2>1. /\ pc' = [pc EXCEPT !["parent"] = "close"] /\ data' = Append(data, u)
        /\ UNCHANGED <<named, files, fds, met, fs, child, failed, broken, i, size, had_file_error,
                       fatal_error>>
    BY <1>3 DEF Goto, Quiet, history, u
  <2>2. pc'["parent"] = "close" /\ pc'["child"] = pc["child"]
    BY <2>1, PcMoves DEF IndInv, Procs
  <2>. HIDE DEF SendEnd
  <2>3. /\ pc["child"] \notin Inside /\ (~broken => At("child", "header"))
        /\ At("child", "header") => data = <<>> /\ data' # <<>> /\ Len(data') = 1 /\ Head(data') = u
    BY <1>1, <2>0, <2>1, HeaderAlone DEF ContentInv
  <2>4. At("child", "header")' = At("child", "header")
    BY <2>2 DEF At
  <2>5. EndsInv'
    BY <1>1, <2>1, EndsStay DEF ContentInv, Gone, Procs
  <2>6. OrderInv'
    BY <1>1, <2>0, <2>1, <2>2, <2>3, <2>4 DEF ContentInv, OrderInv, At, Closing, Returned
  <2>7. StatusInv'
    BY <1>1, <2>1, <2>2 DEF ContentInv, StatusInv, At, Returned, child
  <2>8. FilesSet' = FilesSet /\ \A f : Apart(f)' = Apart(f)
    BY <2>1 DEF FilesSet, Apart
  <2>9. ~Announced' /\ ~Announced /\ pc'["child"] \notin Inside
    BY <2>0, <2>2, <2>3, <2>4 DEF Announced
  <2>10. SourceInv' /\ ReceiverInv'
    BY <2>1, <2>8, <2>9 DEF ContentInv, SourceInv, ReceiverInv
  <2>11. SenderInv'
    BY <2>2 DEF SenderInv, Owed, At
  <2>12. CopiedInv'
    BY <1>1, <2>1, <2>2, <2>3, <2>8, <2>9 DEF ContentInv, CopiedInv, Copied, InTransit, Sent
  <2>. QED
    BY <2>5, <2>6, <2>7, <2>10, <2>11, <2>12 DEF ContentInv
<1>. QED
  BY <1>2, <1>3 DEF SendUnit

LEMMA SendDataContent ==
  ASSUME IndInv, ContentInv, SendData, UNCHANGED <<setup, fs, child>>
  PROVE  ContentInv'
<1>. DEFINE l == IF Len(buffer) = 1 THEN "read" ELSE "write"
            f == files[i]
            u == Byte(Head(buffer))
<1>. USE DEF SendData, setup
<1>1. pc["parent"] = "write" /\ buffer # <<>> /\ buffer \in Seq(Bytes) /\ remaining \in Nat
      /\ fs[f] \in Seq(Bytes) /\ size \in Nat
  BY DEF At, IndInv, ParentInv, TypeInv, ParentType
<1>2. /\ Head(buffer) = buffer[1] /\ Head(buffer) \in Bytes /\ Len(buffer) \in Nat /\ Len(buffer) >= 1
      /\ Len(buffer') = Len(buffer) - 1
      /\ \A k \in 1 .. Len(buffer') : buffer'[k] = buffer[k + 1]
  BY <1>1, TakeFirst, EmptyLen
<1>3. CASE Readers("data") = {} /\ Fatal /\ UNCHANGED data
  <2>1. broken
    BY <1>1, <1>3, NotAlone DEF ContentInv, Works
  <2>. QED
    BY <1>1, <1>3, <2>1, FatalContent DEF Works, Quiet, history
<1>4. CASE data' = Append(data, u) /\ Goto("parent", l) /\ UNCHANGED fatal_error
  <2>1. /\ pc' = [pc EXCEPT !["parent"] = l] /\ data' = Append(data, u)
        /\ UNCHANGED <<named, files, fds, met, fs, child, failed, broken, i, size, remaining,
                       had_file_error, fatal_error>>
    BY <1>4 DEF Goto, Quiet, history
  <2>2. pc'["parent"] = l /\ l \in {"read", "write"} /\ pc'["child"] = pc["child"]
    BY <2>1, PcMoves DEF IndInv, Procs
  <2>3. Owed = remaining + Len(buffer) /\ Owed' = Owed - 1 /\ Owed > 0 /\ Owed \in Nat
    <3>1. Owed = remaining + Len(buffer)
      BY <1>1 DEF Owed, At
    <3>2. Owed' = IF Len(buffer) = 1 THEN remaining' ELSE remaining' + Len(buffer')
      BY <2>2 DEF Owed, At
    <3>. QED
      BY <1>1, <1>2, <2>1, <3>1, <3>2
  <2>4. /\ u \in Units /\ u.arg = buffer[1] /\ data \in Seq(Units)
        /\ data' # <<>> /\ Len(data') = Len(data) + 1 /\ Len(data) \in Nat
        /\ \A k \in 1 .. Len(data) : data'[k] = data[k]
        /\ data'[Len(data) + 1] = u
        /\ data # <<>> => Head(data') = Head(data) /\ Len(data) >= 1
    <3>1. u \in Units /\ u.arg = buffer[1] /\ data \in Seq(Units)
      BY <1>2 DEF Units, DataUnits, Byte, IndInv, TypeInv, ChannelType
    <3>2. data' \in Seq(Units)
      BY <2>1, <3>1, PutLast
    <3>. QED
      BY <2>1, <3>1, <3>2, PutLast, TakeFirst, EmptyLen
  <2>. HIDE DEF SendData, l, u
  <2>5. Granted /\ ack = 0
    BY <2>3 DEF Granted, IndInv, Protocol, ReadyInv
  <2>6. At("child", "header") => data # <<>> /\ Head(data).size = Len(data) - 1 + Owed
    BY <1>1, <2>5 DEF IndInv, Protocol, BetweenInv, Accounted, Over, Returned
  <2>7. pc["child"] \in Inside => left - Len(block) = Len(data) + Owed
    BY <1>1 DEF IndInv, Protocol, InsideInv, Accounted, Over, Returned
  <2>8. /\ FilesSet' = FilesSet /\ Announced' = Announced
        /\ \A g : Apart(g)' = Apart(g) /\ InTransit(g)' = InTransit(g)
        /\ Announced => Head(data') = Head(data)
    BY <2>1, <2>2, <2>4, <2>6 DEF FilesSet, Announced, Apart, InTransit, At, child
  <2>9. EndsInv'
    BY <1>1, <2>1, <2>2, EndsStay DEF ContentInv, Works, Procs
  <2>10. OrderInv' /\ StatusInv'
    <3>1. OrderInv'
      BY <1>1, <2>1, <2>2, <2>4, <2>6 DEF ContentInv, OrderInv, At, Closing, Returned
    <3>2. StatusInv'
      BY <1>1, <2>1, <2>2 DEF ContentInv, StatusInv, At, Returned, child
    <3>. QED
      BY <3>1, <3>2
  <2>11. SourceInv'
    BY <2>1, <2>2, <2>8 DEF ContentInv, SourceInv, child
  <2>12. ~broken => InTransit(f) /\ (Apart(f) => size = Len(fs[f]) /\ buffer[1] = fs[f][size - Owed + 1])
    BY <1>1, <1>2, <2>3 DEF ContentInv, SenderInv, At
  <2>13. SenderInv'
    <3>1. SUFFICES ASSUME ~broken
                   PROVE  /\ Apart(f) =>
                               /\ fs[f] # NoFile /\ size = Len(fs[f])
                               /\ At("parent", "write")' =>
                                    \A k \in 1 .. Len(buffer') : buffer'[k] = fs[f][size - Owed' + k]
                          /\ InTransit(f)
      BY <2>1, <2>8 DEF SenderInv, At
    <3>2. ASSUME Apart(f), NEW k \in 1 .. Len(buffer')
          PROVE  buffer'[k] = fs[f][size - Owed' + k]
      <4>1. k + 1 \in 1 .. Len(buffer)
        BY <1>2
      <4>2. buffer[k + 1] = fs[f][size - Owed + (k + 1)]
        BY <1>1, <3>1, <3>2, <4>1 DEF ContentInv, SenderInv, At
      <4>3. size - Owed' + k = size - Owed + (k + 1)
        BY <1>1, <1>2, <2>3
      <4>. QED
        BY <1>2, <4>2, <4>3
    <3>. QED
      BY <1>1, <2>12, <3>1, <3>2 DEF ContentInv, SenderInv
  <2>14. ReceiverInv'
    <3>1. SUFFICES ASSUME ~broken PROVE ReceiverInv'
      BY <2>1 DEF ReceiverInv
    <3>2. ASSUME Announced, Apart(Head(data).arg)
          PROVE  \A k \in 1 .. Len(data') - 1 : data'[k + 1].arg = fs[Head(data).arg][k]
      <4>1. Head(data).arg = f
        BY <2>12, <3>1, <3>2 DEF InTransit, Announced, At, Inside
      <4>2. ASSUME NEW k \in 1 .. Len(data') - 1
            PROVE  data'[k + 1].arg = fs[Head(data).arg][k]
        <5>1. CASE k \in 1 .. Len(data) - 1
          <6>1. data[k + 1].arg = fs[Head(data).arg][k]
            BY <3>1, <3>2, <5>1 DEF ContentInv, ReceiverInv
          <6>2. data'[k + 1] = data[k + 1]
            BY <2>4, <5>1
          <6>. QED
            BY <6>1, <6>2
        <5>2. CASE k = Len(data)
          <6>1. size - Owed + 1 = k
            <7>1. size = Head(data).size
              BY <2>12, <3>1, <3>2, <4>1 DEF ContentInv, ReceiverInv
            <7>2. Head(data).size = Len(data) - 1 + Owed
              BY <2>6, <3>2 DEF Announced
            <7>. QED
              BY <2>3, <2>4, <5>2, <7>1, <7>2
          <6>. QED
            BY <2>4, <2>12, <3>1, <3>2, <4>1, <5>2, <6>1
        <5>. QED
          BY <2>4, <5>1, <5>2
      <4>. QED
        BY <4>2
    <3>3. ASSUME pc["child"] \in Inside, Apart(msg.arg)
          PROVE  \A k \in 1 .. Len(data') :
                   data'[k].arg = fs[msg.arg][Len(fs[msg.arg]) - left + Len(block) + k]
      <4>1. msg.arg = f
        BY <2>12, <3>1, <3>3 DEF InTransit, Announced, At, Inside
      <4>2. ASSUME NEW k \in 1 .. Len(data')
            PROVE  data'[k].arg = fs[msg.arg][Len(fs[msg.arg]) - left + Len(block) + k]
        <5>1. CASE k \in 1 .. Len(data)
          BY <2>4, <3>1, <3>3, <5>1 DEF ContentInv, ReceiverInv
        <5>2. CASE k = Len(data) + 1
          <6>0. left \in Nat /\ Len(block) \in Nat
            BY EmptyLen DEF IndInv, TypeInv, ChildType
          <6>1. size - Owed + 1 = Len(fs[msg.arg]) - left + Len(block) + k
            <7>1. size = Len(fs[msg.arg])
              BY <2>12, <3>1, <3>3, <4>1
            <7>2. left - Len(block) = Len(data) + Owed
              BY <2>7, <3>3
            <7>3. size \in Nat /\ Owed \in Nat /\ Len(data) \in Nat
              BY <1>1, <2>3, <2>4
            <7>4. k = Len(data) + 1
              BY <5>2
            <7>5. size - Owed + 1 = size - left + Len(block) + k
              BY <6>0, <7>2, <7>3, <7>4
            <7>. QED
              BY <7>1, <7>5
          <6>. QED
            BY <2>4, <2>12, <3>1, <3>3, <4>1, <5>2, <6>1
        <5>. QED
          BY <2>4, <5>1, <5>2
      <4>. QED
        BY <4>2
    <3>4. UNCHANGED <<fs, msg, left, block, out_fd, failed, broken>> /\ Copy' = Copy
      BY <2>1 DEF child, Copy
    <3>. QED
      BY <2>2, <2>8, <3>1, <3>2, <3>3, <3>4 DEF ContentInv, ReceiverInv, At
  <2>15. Sent' = Sent
    BY <1>1, <2>1, <2>2 DEF Sent
  <2>16. CopiedInv'
    BY <2>1, <2>8, <2>15, CopiedStays DEF ContentInv
  <2>. QED
    BY <2>9, <2>10, <2>11, <2>13, <2>14, <2>16 DEF ContentInv
<1>. QED
  BY <1>3, <1>4 DEF SendUnit

-----------------------------------------------------------------------------
(* The child *)

\* The child goes on with its work, an error with the file in hand apart.
LEMMA ChildGoesOn ==
  ASSUME IndInv, ContentInv, pc["child"] \in Works, NEW l \in Works,
         pc' = [pc EXCEPT !["child"] = l],
         UNCHANGED <<setup, parent, fds, met, broken>>,
         At("child", "header") => data # <<>> /\ Head(data).type # "END",
         l = "header" => data' = <<>>,
         UNCHANGED <<failed, had_error>> \/ (failed' # {} /\ had_error' = TRUE)
  PROVE  EndsInv' /\ OrderInv' /\ StatusInv'
<1>1. pc'["child"] = l /\ pc'["parent"] = pc["parent"] /\ pc["child"] \in ChildPcs
  BY PcMoves DEF IndInv, TypeInv, PcType, Procs
<1>2. EndsInv'
  BY EndsStay DEF ContentInv, Procs, setup
<1>3. pc["child"] \notin Exited /\ l \notin Exited
  BY DEF Works, Exited
<1>4. ~broken => pc["parent"] \notin Closing
  BY <1>3 DEF ContentInv, OrderInv, Closing
<1>5. OrderInv'
  BY <1>1, <1>3, <1>4 DEF ContentInv, OrderInv, At, Closing, Exited, Works, setup, parent
<1>6. StatusInv'
  BY <1>1, <1>3 DEF ContentInv, StatusInv, At, Exited, parent
<1>. QED
  BY <1>2, <1>5, <1>6

\* The child gives up or is killed: the parent will notice.
LEMMA ChildEndsContent ==
  ASSUME IndInv, ContentInv, pc["child"] \notin Exited, NEW l \in {"exit1", "killed"},
         Ends("child", l), broken', ~broken => pc["parent"] \notin {"unlink"} \union Returned,
         UNCHANGED <<setup, parent, met, fs, failed, had_error>>
  PROVE  ContentInv'
<1>. USE DEF ContentInv
<1>1. pc'["child"] = l /\ pc'["parent"] = pc["parent"]
  BY PcMoves DEF IndInv, Procs, Ends, Goto
<1>2. EndsInv'
  BY EndsLost DEF Procs, Gone, Exited, setup
<1>3. OrderInv' /\ SenderInv' /\ ReceiverInv' /\ CopiedInv'
  BY DEF OrderInv, SenderInv, ReceiverInv, CopiedInv
<1>4. StatusInv'
  BY <1>1 DEF StatusInv, At, Exited, Returned, parent
<1>5. FilesSet' = FilesSet /\ \A f : Apart(f)' = Apart(f)
  BY DEF FilesSet, Apart, setup
<1>6. SourceInv'
  BY <1>1, <1>5 DEF SourceInv, Announced, At, Inside
<1>. QED
  BY <1>2, <1>3, <1>4, <1>6

LEMMA SendReadyContent ==
  ASSUME IndInv, ContentInv, SendReady, UNCHANGED <<setup, fifos, parent>>
  PROVE  ContentInv'
<1>. USE DEF SendReady, Quiet, history
<1>1. pc["child"] = "ready" /\ data = <<>>
  BY DEF At, IndInv, Protocol, ReadyInv, NotYet
<1>2. CASE Readers("ack") = {}
  <2>1. broken
    BY <1>1, <1>2, NotAlone DEF ContentInv, Works, At
  <2>. QED
    BY <1>1, <1>2, <2>1, ChildEndsContent DEF Exited, child
<1>3. CASE Readers("ack") # {}
  <2>1. /\ pc' = [pc EXCEPT !["child"] = "header"]
        /\ UNCHANGED <<named, files, fds, met, fs, child, failed, broken, data, i, size, remaining, buffer>>
    BY <1>3 DEF Goto, setup, parent
  <2>2. pc'["child"] = "header" /\ pc'["parent"] = pc["parent"]
    BY <2>1, PcMoves DEF IndInv, Procs
  <2>3. EndsInv' /\ OrderInv' /\ StatusInv'
    BY <1>1, <2>1, ChildGoesOn DEF Works, At, child
  <2>4. /\ ~Announced /\ ~Announced' /\ pc["child"] \notin Inside /\ pc'["child"] \notin Inside
        /\ FilesSet' = FilesSet /\ \A f : Apart(f)' = Apart(f)
        /\ Owed' = Owed /\ Sent' = Sent
    BY <1>1, <2>1, <2>2 DEF Announced, Inside, FilesSet, Apart, Owed, Sent, At
  <2>5. SourceInv' /\ ReceiverInv'
    BY <2>1, <2>4 DEF ContentInv, SourceInv, ReceiverInv
  <2>6. SenderInv'
    BY <2>1, <2>2, <2>4 DEF ContentInv, SenderInv, At, InTransit
  <2>7. CopiedInv'
    BY <2>1, <2>4, CopiedStays DEF ContentInv, InTransit
  <2>. QED
    BY <2>3, <2>5, <2>6, <2>7 DEF ContentInv
<1>. QED
  BY <1>2, <1>3

LEMMA EndOfDataContent ==
  ASSUME IndInv, ContentInv, EndOfData, UNCHANGED <<setup, fifos, parent>>
  PROVE  ContentInv'
<1>. USE DEF EndOfData, Quiet, history
<1>1. broken
  BY NotAlone DEF ContentInv, Works
<1>. QED
  BY <1>1, ChildEndsContent DEF Exited, child

LEMMA ReadHeaderContent ==
  ASSUME IndInv, ContentInv, ReadHeader, UNCHANGED <<setup, fifos, parent>>
  PROVE  ContentInv'
<1>. USE DEF ReadHeader
<1>1. /\ pc["child"] = "header" /\ data # <<>> /\ msg' = Head(data) /\ left' = Head(data).size
      /\ UNCHANGED <<named, files, met, fs, block, out_fd, had_error, failed, broken, i, size,
                     remaining, buffer, fatal_error, had_file_error>>
  BY DEF At, Quiet, history, setup, parent
<1>2. /\ Head(data).size \in Nat /\ Len(data) \in Nat /\ Len(data') = Len(data) - 1
      /\ \A k \in 1 .. Len(data) - 1 : data'[k] = data[k + 1]
      /\ Head(data).type \in {"FILE", "END", "BYTE"}
  BY <1>1, TakeFirst, UnitTypes, EmptyLen DEF IndInv, TypeInv, ChannelType
<1>3. Head(data).type # "BYTE" /\ block = <<>> /\ Len(block) = 0
  BY <1>1, EmptyLen DEF IndInv, Protocol, ReadyInv, BetweenInv, At, TypeInv, ChannelType,
    ChildType, ChunkInv, Exited
<1>4. CASE Head(data).type = "END"
  <2>. DEFINE l == IF had_error THEN "exit1" ELSE "exit0"
  <2>1. Ends("child", l)
    BY <1>4
  <2>2. pc'["child"] = l /\ pc'["parent"] = pc["parent"]
    BY <2>1, PcMoves DEF IndInv, Procs, Ends, Goto
  <2>3. l \in Exited /\ l \in Gone /\ (l = "exit1" <=> had_error) /\ (l = "exit0" <=> ~had_error)
        /\ l # "killed"
    BY DEF Exited, Gone
  <2>. HIDE DEF l
  <2>4. EndsInv'
    BY <1>1, <2>1, <2>3, EndsLost DEF ContentInv, Procs
  <2>5. ~broken => pc["parent"] \in {"close", "waitpid"}
    BY <1>1, <1>4 DEF ContentInv, OrderInv, At, Closing, Exited
  <2>6. OrderInv'
    BY <1>1, <2>2, <2>3, <2>5 DEF ContentInv, OrderInv, At, Closing, Exited, Returned
  <2>7. StatusInv'
    BY <1>1, <2>2, <2>3, <2>5 DEF ContentInv, StatusInv, At, Exited, Returned
  <2>8. /\ ~Announced /\ ~Announced' /\ pc["child"] \notin Inside /\ pc'["child"] \notin Inside
        /\ FilesSet' = FilesSet /\ \A f : Apart(f)' = Apart(f)
        /\ Sent' = Sent /\ (~broken => Owed' = 0)
    BY <1>1, <1>4, <2>2, <2>3, <2>5 DEF Announced, Inside, FilesSet, Apart, Owed, Sent, At, Exited
  <2>9. SourceInv' /\ ReceiverInv'
    BY <1>1, <2>8 DEF ContentInv, SourceInv, ReceiverInv
  <2>10. SenderInv'
    BY <1>1, <2>2, <2>5, <2>8 DEF SenderInv, At
  <2>11. CopiedInv'
    BY <1>1, <2>8, CopiedStays DEF ContentInv, InTransit
  <2>. QED
    BY <2>4, <2>6, <2>7, <2>9, <2>10, <2>11 DEF ContentInv
<1>5. CASE Head(data).type = "FILE"
  <2>1. /\ pc' = [pc EXCEPT !["child"] = "create"] /\ fds' = fds
    BY <1>5 DEF Goto
  <2>2. pc'["child"] = "create" /\ pc'["parent"] = pc["parent"]
    BY <2>1, PcMoves DEF IndInv, Procs
  <2>3. EndsInv' /\ OrderInv' /\ StatusInv'
    BY <1>1, <1>5, <2>1, ChildGoesOn DEF Works, setup, parent
  <2>4. /\ Announced /\ ~Announced' /\ pc["child"] \notin Inside /\ pc'["child"] \in Inside
        /\ FilesSet' = FilesSet /\ \A f : Apart(f)' = Apart(f)
        /\ \A f : InTransit(f)' = InTransit(f)
        /\ Owed' = Owed /\ Sent' = Sent
    BY <1>1, <1>5, <2>2 DEF Announced, Inside, FilesSet, Apart, Owed, Sent, At, InTransit
  <2>5. SourceInv'
    BY <1>1, <2>4 DEF ContentInv, SourceInv
  <2>6. SenderInv'
    BY <1>1, <2>2, <2>4 DEF ContentInv, SenderInv, At
  <2>7. ReceiverInv'
    <3>1. SUFFICES ASSUME ~broken, Apart(Head(data).arg)
                   PROVE  LET c == fs[Head(data).arg]
                          IN /\ c # NoFile /\ c \in Seq(Bytes) /\ Len(c) - left' = 0
                             /\ \A k \in 1 .. Len(data') : data'[k].arg = c[k]
      <4>1. \A k \in 1 .. Len(data') : 0 + Len(block) + k = k
        BY <1>2, <1>3
      <4>2. \A k \in 1 .. Len(block) : FALSE
        BY <1>3
      <4>. QED
        BY <1>1, <1>3, <2>2, <2>4, <4>1, <4>2 DEF ReceiverInv, At
    <3>. DEFINE c == fs[Head(data).arg]
    <3>2. /\ c # NoFile /\ c \in Seq(Bytes) /\ Head(data).size = Len(c)
          /\ \A k \in 1 .. Len(data) - 1 : data[k + 1].arg = c[k]
      BY <2>4, <3>1 DEF ContentInv, ReceiverInv
    <3>. QED
      BY <1>1, <1>2, <3>2
  <2>8. CopiedInv'
    BY <1>1, <2>4, CopiedStays DEF ContentInv
  <2>. QED
    BY <2>3, <2>5, <2>6, <2>7, <2>8 DEF ContentInv
<1>. QED
  BY <1>2, <1>3, <1>4, <1>5

\* What is written to a copy does not touch the files apart from it.
LEMMA CopyElsewhere ==
  ASSUME IndInv, SourceInv, pc["child"] \in Inside, NEW f \in Names, Apart(f), NEW v,
         fs' = [fs EXCEPT ![Copy] = v]
  PROVE  Copy # f /\ fs'[f] = fs[f]
<1>1. PICK k \in DOMAIN files : msg.arg = files[k]
  BY DEF SourceInv, FilesSet
<1>2. Copy # f
  BY <1>1 DEF Copy, Apart
<1>. QED
  BY <1>2 DEF IndInv, TypeInv, ChildType

\* Two arguments have the same copy only if they are the same.
LEMMA CopyOwn ==
  ASSUME IndInv, NEW f \in FilesSet, NEW g \in FilesSet, CopyOf[f] = CopyOf[g]
  PROVE  f = g
BY FileCopyAssumption DEF IndInv, TypeInv, ParentType, FilesSet

\* A step inside a message: what is left to show is the child's side of it.
LEMMA InsideContent ==
  ASSUME IndInv, ContentInv, pc["child"] \in Inside, NEW l \in Inside,
         pc' = [pc EXCEPT !["child"] = l],
         UNCHANGED <<setup, parent, fds, met, broken, msg>>,
         fs' = fs \/ \E v : fs' = [fs EXCEPT ![Copy] = v],
         \/ UNCHANGED <<failed, had_error>>
         \/ failed' = failed \union {msg.arg} /\ had_error' = TRUE,
         ReceiverInv'
  PROVE  ContentInv'
<1>0. pc'["child"] = l /\ pc'["parent"] = pc["parent"]
  BY PcMoves DEF IndInv, Procs
<1>1. EndsInv' /\ OrderInv' /\ StatusInv'
  <2>1. failed' = failed \union {msg.arg} => failed' # {}
    OBVIOUS
  <2>2. pc["child"] \in Works /\ l \in Works /\ l # "header" /\ ~At("child", "header")
    BY DEF Inside, Works, At
  <2>. QED
    BY <2>1, <2>2, ChildGoesOn
<1>2. /\ ~Announced /\ ~Announced' /\ FilesSet' = FilesSet
      /\ \A f : Apart(f)' = Apart(f) /\ InTransit(f)' = InTransit(f)
      /\ Owed' = Owed /\ Sent' = Sent /\ files \in Seq(Names) /\ FilesSet \subseteq Names
      /\ Copy' = Copy
  <2>1. files \in Seq(Names) /\ FilesSet \subseteq Names
    BY DEF IndInv, TypeInv, ParentType, FilesSet
  <2>. QED
    BY <1>0, <2>1 DEF Announced, Inside, FilesSet, Apart, Owed, Sent, At, InTransit, setup, parent, Copy
<1>3. \A f \in FilesSet : Apart(f) => fs'[f] = fs[f]
  BY <1>2, CopyElsewhere DEF ContentInv
<1>4. SourceInv'
  BY <1>0, <1>2, <1>3 DEF ContentInv, SourceInv
<1>5. pc["parent"] \in {"wait_ready", "header", "read", "write"} => files[i] \in FilesSet
  BY DEF IndInv, ParentInv, TypeInv, ParentType, FilesSet
<1>6. SenderInv'
  BY <1>0, <1>2, <1>3, <1>5 DEF ContentInv, SenderInv, At, setup, parent
<1>7. CopiedInv'
  <2>1. SUFFICES ASSUME ~broken, NEW k \in 1 .. Sent, Apart(files[k]), files[k] \notin failed
                 PROVE  Copied(files[k])' \/ InTransit(files[k])
    BY <1>2 DEF CopiedInv, setup
  <2>2. CASE InTransit(files[k])
    BY <2>2
  <2>3. CASE ~InTransit(files[k])
    <3>1. Copied(files[k])
      BY <2>1, <2>3 DEF ContentInv, CopiedInv
    <3>2. files[k] \in FilesSet
      <4>1. k \in DOMAIN files
        BY DEF Sent, IndInv, ParentInv, TypeInv, ParentType
      <4>. QED
        BY <4>1 DEF FilesSet
    <3>3. msg.arg \in FilesSet /\ msg.arg # files[k]
      BY <2>3 DEF ContentInv, SourceInv, InTransit
    <3>4. CopyOf[files[k]] # Copy /\ CopyOf[files[k]] \in Names
      BY <1>2, <3>2, <3>3, CopyOwn, FileCopyAssumption DEF Copy
    <3>5. fs'[CopyOf[files[k]]] = fs[CopyOf[files[k]]]
      BY <3>4 DEF IndInv, TypeInv, ChildType
    <3>. QED
      BY <1>3, <2>1, <3>1, <3>2, <3>5 DEF Copied, setup
  <2>. QED
    BY <2>2, <2>3
<1>. QED
  BY <1>1, <1>4, <1>6, ReceiverInv', <1>7 DEF ContentInv

LEMMA CreateContent ==
  ASSUME IndInv, ContentInv, Create, UNCHANGED <<setup, fifos, parent>>
  PROVE  ContentInv'
<1>. USE DEF Create, Quiet, history, channels
<1>1. /\ pc["child"] = "create" /\ pc["child"] \in Inside /\ Copy \in Names /\ block = <<>>
      /\ pc' = [pc EXCEPT !["child"] = "data"] /\ fs' = [fs EXCEPT ![Copy] = <<>>] /\ out_fd'
      /\ UNCHANGED <<setup, parent, fds, met, data, broken, failed, msg, left, block, had_error>>
  BY FileCopyAssumption DEF At, Goto, IndInv, ChunkInv, Inside, Exited, Copy
<1>2. pc'["child"] = "data" /\ Copy' = Copy /\ fs'[Copy] = <<>> /\ Len(fs'[Copy]) = 0
  BY <1>1, PcMoves, EmptySeq, EmptyLen DEF IndInv, Procs, TypeInv, ChildType, Copy
<1>3. ReceiverInv'
  <2>1. SUFFICES ASSUME ~broken, Apart(msg.arg)
                 PROVE  LET c == fs'[msg.arg] done == Len(c) - left
                        IN /\ c # NoFile /\ c \in Seq(Bytes) /\ done = 0
                           /\ \A k \in 1 .. Len(block) : block[k] = c[done + k]
                           /\ \A k \in 1 .. Len(data) : data[k].arg = c[done + Len(block) + k]
    BY <1>1, <1>2 DEF ReceiverInv, At, Announced, Inside, Apart, setup
  <2>2. msg.arg \in Names
    BY <1>1 DEF IndInv, ChunkInv
  <2>3. fs'[msg.arg] = fs[msg.arg]
    BY <1>1, <2>1, <2>2, CopyElsewhere DEF ContentInv
  <2>. QED
    BY <1>1, <2>1, <2>3 DEF ContentInv, ReceiverInv, At
<1>. QED
  BY <1>1, <1>3, InsideContent DEF Inside

LEMMA CreateFailsContent ==
  ASSUME IndInv, ContentInv, CreateFails, UNCHANGED <<setup, fifos, parent>>
  PROVE  ContentInv'
<1>. USE DEF CreateFails, channels, FileError
<1>1. /\ pc["child"] = "create" /\ pc["child"] \in Inside
      /\ pc' = [pc EXCEPT !["child"] = "data"] /\ fs' = fs
      /\ failed' = failed \union {msg.arg} /\ had_error' = TRUE
      /\ UNCHANGED <<setup, parent, fds, met, data, broken, msg, left, block>>
  BY DEF At, Goto, Inside
<1>2. pc'["child"] = "data"
  BY <1>1, PcMoves DEF IndInv, Procs
<1>3. ReceiverInv'
  BY <1>1, <1>2 DEF ContentInv, ReceiverInv, At, Announced, Inside, Apart, setup
<1>. QED
  BY <1>1, <1>3, InsideContent DEF Inside

LEMMA ReadDataContent ==
  ASSUME IndInv, ContentInv, ReadData, UNCHANGED <<setup, fifos, parent>>
  PROVE  ContentInv'
<1>. USE DEF ReadData, Quiet, history
<1>1. /\ pc["child"] = "data" /\ pc["child"] \in Inside /\ data # <<>> /\ data \in Seq(Units)
      /\ data' = Tail(data) /\ block' = Append(block, Head(data).arg)
      /\ UNCHANGED <<setup, parent, fds, met, broken, failed, msg, left, fs, out_fd, had_error>>
  BY DEF At, Inside, IndInv, TypeInv, ChannelType
<1>2. PICK l \in {"data", "write"} : pc' = [pc EXCEPT !["child"] = l]
  BY DEF Goto
<1>3. pc'["child"] = l
  BY <1>2, PcMoves DEF IndInv, Procs
<1>4. /\ Head(data) = data[1] /\ Head(data) \in Units /\ Len(data) \in Nat /\ Len(data) >= 1
      /\ Len(data') = Len(data) - 1 /\ \A k \in 1 .. Len(data) - 1 : data'[k] = data[k + 1]
  BY <1>1, TakeFirst, EmptyLen
<1>5. data[1].type = "BYTE"
  BY <1>1, <1>4 DEF IndInv, Protocol, InsideInv
<1>6. /\ Len(block') = Len(block) + 1 /\ Len(block) \in Nat
      /\ \A k \in 1 .. Len(block) : block'[k] = block[k]
      /\ block'[Len(block) + 1] = data[1].arg
  <2>1. block \in Seq(Bytes) /\ Head(data).arg \in Bytes
    BY <1>4, <1>5, UnitTypes DEF IndInv, TypeInv, ChildType
  <2>. QED
    BY <1>1, <1>4, <2>1, PutLast, EmptyLen
<1>7. ReceiverInv'
  <2>. DEFINE c    == fs[msg.arg]
              done == Len(c) - left
  <2>1. SUFFICES ASSUME ~broken, Apart(msg.arg)
                 PROVE  /\ \A k \in 1 .. Len(block') : block'[k] = c[done + k]
                        /\ \A k \in 1 .. Len(data') : data'[k].arg = c[done + Len(block') + k]
    BY <1>1, <1>3 DEF ContentInv, ReceiverInv, At, Announced, Inside, Apart, Copy, setup
  <2>2. /\ c \in Seq(Bytes) /\ done >= 0
        /\ \A k \in 1 .. Len(block) : block[k] = c[done + k]
        /\ \A k \in 1 .. Len(data) : data[k].arg = c[done + Len(block) + k]
    BY <1>1, <2>1 DEF ContentInv, ReceiverInv
  <2>3. done \in Int
    BY <2>2, EmptyLen DEF IndInv, TypeInv, ChildType
  <2>. HIDE DEF c, done
  <2>4. ASSUME NEW k \in 1 .. Len(block')
        PROVE  block'[k] = c[done + k]
    <3>1. CASE k \in 1 .. Len(block)
      BY <1>6, <2>2, <3>1
    <3>2. CASE k = Len(block) + 1
      <4>1. data[1].arg = c[done + Len(block) + 1] /\ done + Len(block) + 1 = done + k
        BY <1>4, <1>6, <2>2, <2>3, <3>2
      <4>. QED
        BY <1>6, <3>2, <4>1
    <3>. QED
      BY <1>6, <3>1, <3>2
  <2>5. ASSUME NEW k \in 1 .. Len(data')
        PROVE  data'[k].arg = c[done + Len(block') + k]
    <3>1. k + 1 \in 1 .. Len(data) /\ data'[k] = data[k + 1]
      BY <1>4
    <3>2. done + Len(block) + (k + 1) = done + Len(block') + k
      BY <1>6, <2>3
    <3>. QED
      BY <2>2, <3>1, <3>2
  <2>. QED
    BY <2>4, <2>5
<1>. QED
  BY <1>1, <1>2, <1>7, InsideContent DEF Inside

\* A chunk that is done leaves what is still to come where it was.
LEMMA ChunkMoves ==
  ASSUME IndInv, ContentInv, pc["child"] = "write", ChunkDone, ~broken, Apart(msg.arg)
  PROVE  LET c == fs[msg.arg] done == Len(c) - left
         IN /\ c # NoFile /\ c \in Seq(Bytes) /\ done \in Nat /\ Len(block) \in Nat
            /\ Len(c) - left' = done + Len(block)
            /\ \A k \in 1 .. Len(data) : data[k].arg = c[Len(c) - left' + Len(block') + k]
<1>. DEFINE c    == fs[msg.arg]
            done == Len(c) - left
<1>1. /\ c # NoFile /\ c \in Seq(Bytes) /\ done >= 0
      /\ \A k \in 1 .. Len(data) : data[k].arg = c[done + Len(block) + k]
  BY DEF ContentInv, ReceiverInv, Inside
<1>2. left \in Nat /\ Len(c) \in Nat /\ Len(block) \in Nat
  BY <1>1, EmptyLen DEF IndInv, TypeInv, ChildType
<1>3. left' = left - Len(block) /\ Len(block') = 0
  BY ChunkIsDone DEF ChunkDone
<1>4. Len(c) - left' = done + Len(block)
  BY <1>2, <1>3
<1>5. \A k \in 1 .. Len(data) : done + Len(block) + 0 + k = done + Len(block) + k
  BY <1>1, <1>2
<1>. QED
  BY <1>1, <1>2, <1>3, <1>4, <1>5

LEMMA WriteBlockContent ==
  ASSUME IndInv, ContentInv, WriteBlock, UNCHANGED <<setup, fifos, parent>>
  PROVE  ContentInv'
<1>. USE DEF WriteBlock, Quiet, history, channels
<1>1. /\ pc["child"] = "write" /\ pc["child"] \in Inside /\ Copy \in Names /\ msg.arg \in Names
      /\ pc' = [pc EXCEPT !["child"] = "data"] /\ ChunkDone
      /\ fs' = IF out_fd THEN [fs EXCEPT ![Copy] = fs[Copy] \o block] ELSE fs
      /\ UNCHANGED <<setup, parent, fds, met, data, broken, failed, msg, out_fd, had_error>>
  BY FileCopyAssumption DEF At, Goto, IndInv, ChunkInv, Inside, Copy
<1>2. pc'["child"] = "data" /\ Copy' = Copy /\ block' = <<>> /\ Len(block') = 0
  BY <1>1, PcMoves, ChunkIsDone DEF IndInv, Procs, Copy
<1>3. fs' = fs \/ \E v : fs' = [fs EXCEPT ![Copy] = v]
  BY <1>1
<1>4. ReceiverInv'
  <2>. DEFINE c    == fs[msg.arg]
              done == Len(c) - left
  <2>1. SUFFICES ASSUME ~broken, Apart(msg.arg)
                 PROVE  /\ fs'[msg.arg] = c /\ c # NoFile /\ c \in Seq(Bytes) /\ Len(c) - left' >= 0
                        /\ \A k \in 1 .. Len(data) : data[k].arg = c[Len(c) - left' + Len(block') + k]
                        /\ msg.arg \notin failed =>
                             /\ out_fd /\ Len(fs'[Copy]) = Len(c) - left'
                             /\ \A k \in 1 .. Len(c) - left' : fs'[Copy][k] = c[k]
    <3>. HIDE DEF WriteBlock
    <3>1. UNCHANGED <<files, data, broken, failed, msg, out_fd>>
      BY <1>1 DEF setup
    <3>2. Apart(msg.arg)' = Apart(msg.arg) /\ ~Announced'
      BY <1>2, <3>1 DEF Apart, Announced, At
    <3>3. \A k \in 1 .. Len(block') : FALSE
      BY <1>2
    <3>. QED
      BY <1>2, <3>1, <3>2, <3>3 DEF ReceiverInv, At
  <2>2. /\ c # NoFile /\ c \in Seq(Bytes) /\ done \in Nat /\ Len(block) \in Nat
        /\ Len(c) - left' = done + Len(block)
        /\ \A k \in 1 .. Len(data) : data[k].arg = c[Len(c) - left' + Len(block') + k]
    BY <1>1, <2>1, ChunkMoves
  <2>3. fs'[msg.arg] = c
    BY <1>1, <1>3, <2>1, CopyElsewhere DEF ContentInv
  <2>4. ASSUME msg.arg \notin failed
        PROVE  /\ out_fd /\ Len(fs'[Copy]) = done + Len(block)
               /\ \A k \in 1 .. done + Len(block) : fs'[Copy][k] = c[k]
    <3>1. /\ out_fd /\ Len(fs[Copy]) = done
          /\ \A k \in 1 .. done : fs[Copy][k] = c[k]
          /\ \A k \in 1 .. Len(block) : block[k] = c[done + k]
      BY <1>1, <2>1, <2>4 DEF ContentInv, ReceiverInv
    <3>2. fs'[Copy] = fs[Copy] \o block
      BY <1>1, <3>1 DEF IndInv, TypeInv, ChildType
    <3>3. fs[Copy] \in Seq(Bytes) /\ block \in Seq(Bytes)
      BY <1>1, <3>1 DEF IndInv, ChunkInv, TypeInv, ChildType
    <3>. HIDE DEF c, done
    <3>4. /\ Len(fs'[Copy]) = done + Len(block)
          /\ \A k \in 1 .. done + Len(block) :
               fs'[Copy][k] = IF k <= done THEN fs[Copy][k] ELSE block[k - done]
      BY <3>1, <3>2, <3>3, ConcatProperties
    <3>5. ASSUME NEW k \in 1 .. done + Len(block)
          PROVE  fs'[Copy][k] = c[k]
      <4>1. CASE k <= done
        BY <2>2, <3>1, <3>4, <4>1
      <4>2. CASE k > done
        <5>1. k - done \in 1 .. Len(block) /\ done + (k - done) = k
          BY <2>2, <4>2
        <5>2. block[k - done] = c[k]
          BY <3>1, <5>1
        <5>. QED
          BY <2>2, <3>4, <4>2, <5>2
      <4>3. k <= done \/ k > done
        <5>1. k \in Int /\ done \in Int
          BY <2>2
        <5>. QED
          BY <5>1
      <4>. QED
        BY <4>1, <4>2, <4>3
    <3>. QED
      BY <3>1, <3>4, <3>5
  <2>. HIDE DEF c, done
  <2>. QED
    BY <2>2, <2>3, <2>4
<1>. QED
  BY <1>1, <1>3, <1>4, InsideContent DEF Inside

LEMMA WriteFailsContent ==
  ASSUME IndInv, ContentInv, WriteFails, UNCHANGED <<setup, fifos, parent>>
  PROVE  ContentInv'
<1>. USE DEF WriteFails, channels, FileError
<1>1. /\ pc["child"] = "write" /\ pc["child"] \in Inside /\ ChunkDone
      /\ pc' = [pc EXCEPT !["child"] = "data"] /\ fs' = fs
      /\ failed' = failed \union {msg.arg} /\ had_error' = TRUE
      /\ UNCHANGED <<setup, parent, fds, met, data, broken, msg>>
  BY DEF At, Goto, Inside
<1>2. pc'["child"] = "data" /\ block' = <<>> /\ Len(block') = 0
  BY <1>1, PcMoves, ChunkIsDone DEF IndInv, Procs
<1>3. ReceiverInv'
  <2>. DEFINE c == fs[msg.arg]
  <2>1. SUFFICES ASSUME ~broken, Apart(msg.arg)
                 PROVE  /\ c # NoFile /\ c \in Seq(Bytes) /\ Len(c) - left' >= 0
                        /\ \A k \in 1 .. Len(data) : data[k].arg = c[Len(c) - left' + Len(block') + k]
    BY <1>1, <1>2 DEF ReceiverInv, At, Announced, Inside, Apart, setup
  <2>. QED
    BY <1>1, <2>1, ChunkMoves
<1>. QED
  BY <1>1, <1>3, InsideContent DEF Inside

LEMMA CloseCopyContent ==
  ASSUME IndInv, ContentInv, CloseCopy, UNCHANGED <<setup, fifos, parent>>
  PROVE  ContentInv'
<1>. USE DEF CloseCopy, channels, FileError, Quiet, history
<1>1. /\ pc["child"] = "data" /\ pc["child"] \in Inside /\ left = 0
      /\ pc' = [pc EXCEPT !["child"] = "ready"]
      /\ UNCHANGED <<setup, parent, fds, met, data, broken, msg, left, block, fs, fifos>>
      /\ failed \subseteq failed'
  BY DEF At, Goto, Inside
<1>2. pc'["child"] = "ready" /\ pc'["parent"] = pc["parent"]
  BY <1>1, PcMoves DEF IndInv, Procs
<1>3. UNCHANGED <<failed, had_error>> \/ (failed' # {} /\ had_error' = TRUE)
  OBVIOUS
<1>4. EndsInv' /\ OrderInv' /\ StatusInv'
  BY <1>1, <1>3, ChildGoesOn DEF Works, At
<1>5. /\ ~Announced /\ ~Announced' /\ pc'["child"] \notin Inside /\ FilesSet' = FilesSet
      /\ \A f : Apart(f)' = Apart(f)
      /\ Owed' = Owed /\ Sent' = Sent
  BY <1>1, <1>2 DEF Announced, Inside, FilesSet, Apart, Owed, Sent, At, setup, parent
<1>6. SourceInv' /\ ReceiverInv'
  BY <1>1, <1>5 DEF ContentInv, SourceInv, ReceiverInv
<1>7. ~(Owed > 0)
  <2>1. IndInv'
    BY CloseCopyStep
  <2>. QED
    BY <1>2, <1>5, <2>1 DEF IndInv, Protocol, ReadyInv, NotYet, Granted
<1>8. SenderInv'
  BY <1>1, <1>2, <1>5, <1>7 DEF ContentInv, SenderInv, At, setup, parent
<1>9. ASSUME ~broken, Apart(msg.arg), msg.arg \notin failed
      PROVE  Copied(msg.arg)
  <2>. DEFINE c == fs[msg.arg]
  <2>1. /\ c # NoFile /\ c \in Seq(Bytes) /\ out_fd /\ Len(fs[Copy]) = Len(c) - left
        /\ \A k \in 1 .. Len(c) - left : fs[Copy][k] = c[k]
    BY <1>1, <1>9 DEF ContentInv, ReceiverInv
  <2>2. fs[Copy] \in Seq(Bytes)
    BY <1>1, <2>1 DEF IndInv, ChunkInv
  <2>3. Len(c) - left = Len(c)
    BY <1>1, <2>1, EmptyLen
  <2>. HIDE DEF c
  <2>4. fs[Copy] = c
    BY <2>1, <2>2, <2>3, SeqEqual
  <2>. QED
    BY <2>1, <2>4 DEF Copied, Copy, c
<1>10. CopiedInv'
  <2>1. SUFFICES ASSUME ~broken, NEW k \in 1 .. Sent, Apart(files[k]), files[k] \notin failed
                 PROVE  Copied(files[k])
    BY <1>1, <1>5 DEF CopiedInv, Copied, setup
  <2>2. Copied(files[k]) \/ InTransit(files[k])
    BY <2>1 DEF ContentInv, CopiedInv
  <2>. QED
    BY <1>5, <1>9, <2>1, <2>2 DEF InTransit
<1>. QED
  BY <1>4, <1>6, <1>8, <1>10 DEF ContentInv

-----------------------------------------------------------------------------
(* Either process may be killed *)

LEMMA KillContent ==
  ASSUME IndInv, ContentInv, NEW p \in Procs, Kill(p)
  PROVE  ContentInv'
<1>. USE DEF Kill
<1>1. CASE p = "child"
  <2>1. pc["child"] \notin Exited
    BY <1>1 DEF Alive
  <2>2. ~broken => pc["parent"] \notin {"unlink"} \union Returned
    BY <2>1 DEF ContentInv, OrderInv
  <2>. QED
    BY <1>1, <2>1, <2>2, ChildEndsContent DEF child
<1>2. CASE p = "parent"
  <2>1. pc' = [pc EXCEPT !["parent"] = "killed"] /\ pc'["parent"] = "killed"
        /\ pc'["child"] = pc["child"]
    BY <1>2, PcMoves DEF Ends, Goto, IndInv, Procs
  <2>2. EndsInv'
    BY <1>2, EndsLost DEF ContentInv, Procs, Gone, Exited, setup
  <2>3. OrderInv' /\ SenderInv' /\ broken'
    BY DEF OrderInv, SenderInv
  <2>4. StatusInv'
    BY <2>1 DEF ContentInv, StatusInv, At, parent, child
  <2>. QED
    BY <2>1, <2>2, <2>3, <2>4, ParentQuiet DEF setup
<1>. QED
  BY <1>1, <1>2 DEF Procs

-----------------------------------------------------------------------------
(* The theorems *)

\* No step breaks the invariant.
LEMMA NextContent == IndInv /\ ContentInv /\ [Next]_vars => ContentInv'
<1>. SUFFICES ASSUME IndInv, ContentInv, [Next]_vars PROVE ContentInv'
  OBVIOUS
<1>1. CASE ParentStep
  <2>1. UNCHANGED <<setup, fs, child>>
    BY <1>1 DEF ParentStep
  <2>2. CASE MakeChannels \/ MakeAckFifo \/ SetupFails \/ Fork
    BY <2>1, <2>2, MakeChannelsContent, SetupFailsContent, ForkContent
  <2>3. CASE Opening("parent") \/ \E c \in Chans : ParentOpenFails(c)
    BY <2>1, <2>3, OpeningContent, OpenFailsContent DEF Procs
  <2>4. CASE SkipFile \/ OpenFile \/ NoMoreFiles \/ FileSent
    BY <2>1, <2>4, SkipFileContent, OpenFileContent, NoMoreFilesContent, FileSentContent
  <2>5. CASE wait_ready("wait_ready", "header") \/ wait_ready("final_ready", "end")
    BY <2>1, <2>5, WaitReadyContent
  <2>6. CASE SendHeader \/ ReadBlock \/ ReadFails \/ SendData \/ SendEnd
    BY <2>1, <2>6, SendHeaderContent, ReadBlockContent, ReadFailsContent, SendDataContent,
      SendEndContent
  <2>7. CASE CloseEnds \/ WaitPid \/ Finish
    BY <2>1, <2>7, CloseEndsContent, WaitPidContent, FinishContent
  <2>. QED
    BY <1>1, <2>2, <2>3, <2>4, <2>5, <2>6, <2>7 DEF ParentStep
<1>2. CASE ChildStep
  <2>1. CASE /\ Opening("child") \/ \E c \in Chans : ChildOpenFails(c)
             /\ UNCHANGED <<setup, fs, child>>
    BY <2>1, OpeningContent, OpenFailsContent DEF Procs
  <2>2. CASE child_loop
    <3>1. UNCHANGED <<setup, fifos, parent>>
      BY <2>2 DEF child_loop
    <3>. QED
      BY <2>2, <3>1, SendReadyContent, ReadHeaderContent, EndOfDataContent, CreateContent,
        CreateFailsContent, ReadDataContent, WriteBlockContent, WriteFailsContent,
        CloseCopyContent DEF child_loop
  <2>. QED
    BY <1>2, <2>1, <2>2 DEF ChildStep
<1>3. CASE \E p \in Procs : Kill(p)
  BY <1>3, KillContent
<1>4. CASE UNCHANGED vars
  <2>1. UNCHANGED <<named, files, pc, fds, met, data, ack, fifos, fs, i, size, remaining, buffer,
                    fatal_error, had_file_error, msg, left, block, out_fd, had_error,
                    failed, broken, faults>>
    BY <1>4 DEF vars, setup, channels, parent, child, history
  <2>2. EndsInv' /\ OrderInv' /\ StatusInv'
    BY <2>1 DEF ContentInv, EndsInv, OrderInv, StatusInv, At
  <2>3. /\ FilesSet' = FilesSet /\ Announced' = Announced /\ Sent' = Sent /\ Owed' = Owed
        /\ \A f : Apart(f)' = Apart(f) /\ InTransit(f)' = InTransit(f) /\ Copied(f)' = Copied(f)
    BY <2>1 DEF FilesSet, Announced, Sent, Owed, Apart, InTransit, Copied, At
  <2>4. SourceInv' /\ SenderInv' /\ ReceiverInv' /\ CopiedInv'
    BY <2>1, <2>3 DEF ContentInv, SourceInv, SenderInv, ReceiverInv, CopiedInv, At, Copy
  <2>. QED
    BY <2>2, <2>4 DEF ContentInv
<1>. QED
  BY <1>1, <1>2, <1>3, <1>4 DEF Next

LEMMA ContentAlways == Spec => [](IndInv /\ ContentInv)
BY InitInv, InitContent, NextInv, NextContent, PTL DEF Spec

\* The invariant says what the runs check.
LEMMA ContentMeans == IndInv /\ ContentInv => OthersStillCopied /\ StatusTellsTruth
<1>. SUFFICES ASSUME IndInv, ContentInv PROVE OthersStillCopied /\ StatusTellsTruth
  OBVIOUS
<1>1. ASSUME pc["parent"] \in Returned, ~broken
      PROVE  /\ pc["child"] \in {"exit0", "exit1"}
             /\ \A f \in FilesSet \ failed : Apart(f) => Copied(f)
  <2>1. pc["child"] \in Exited /\ pc["child"] # "killed" /\ i > Len(files)
    BY <1>1 DEF ContentInv, OrderInv, Closing
  <2>2. \A f : ~InTransit(f)
    BY <2>1 DEF InTransit, Announced, At, Inside, Exited
  <2>3. ASSUME NEW k \in DOMAIN files
        PROVE  k \in 1 .. Sent
    BY <1>1, <2>1 DEF Sent, Returned, IndInv, TypeInv, ParentType
  <2>. QED
    BY <1>1, <2>1, <2>2, <2>3 DEF FilesSet, ContentInv, CopiedInv, Exited
<1>2. ASSUME At("parent", "success")
      PROVE  failed = {} /\ ~broken
  <2>1. ~broken
    BY <1>2 DEF ContentInv, StatusInv, At
  <2>2. At("child", "exit0")
    BY <1>1, <1>2, <2>1 DEF ContentInv, StatusInv, At, Returned
  <2>. QED
    BY <1>2, <2>1, <2>2 DEF ContentInv, StatusInv
<1>3. ASSUME At("parent", "failure"), ~broken
      PROVE  failed # {}
  BY <1>3 DEF ContentInv, StatusInv
<1>. QED
  BY <1>1, <1>2, <1>3 DEF OthersStillCopied, StatusTellsTruth, At, Returned

\* Whatever goes wrong with some of the files, on either side, all the others are
\* equal to their copies when the program returns, unless the transfer itself was
\* broken off (filecopy.c, had_file_error and the "bad" file of child_loop).
THEOREM OthersAreCopied == Spec => []OthersStillCopied
BY ContentAlways, ContentMeans, PTL

\* EXIT_SUCCESS means that every file was copied, and EXIT_FAILURE that something
\* did go wrong (filecopy.c:485).
THEOREM StatusIsTrue == Spec => []StatusTellsTruth
BY ContentAlways, ContentMeans, PTL
=============================================================================

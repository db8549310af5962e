----------------------------- MODULE TaxiProofs ------------------------------
(***************************************************************************)
(* Safety of Taxi for arrays of any size and any number of drivers, tasks   *)
(* and faults.                                                              *)
(***************************************************************************)
EXTENDS Taxi, TLAPS, SequenceTheorems

Entries == [pid : Pids, status : {"Unknown", "Available", "Busy"}]

\* A driver that has not said "Available" yet; one that can read its commands.
Starting == {"open_cmd", "open_resp", "wait_resp"}

TypeInv ==
    /\ dpc \in {"loop"} \union Creating \union Gone
    /\ forks \in Nat /\ forks <= MaxForks
    /\ drivers \in Seq(Entries)
    /\ dstate \in [Pids -> {"unborn", "run", "dead"} \union Starting]
    /\ inherited \in [Pids -> SUBSET Pids]
    /\ busy \in [Pids -> BOOLEAN]
    /\ armed \subseteq Pids
    /\ fifos \subseteq Pids \X {"cmd", "resp"}
    /\ cmd \in [Pids -> Seq(Durations)]
    /\ resp \in [Pids -> Seq({"Available", "Busy"})]

\* The array: each driver once, none that is not forked or still being created.
ListInv ==
    /\ \A i, j \in DOMAIN drivers : drivers[i].pid = drivers[j].pid => i = j
    /\ \A p \in Listed : p <= forks
    /\ dpc \in Creating => forks >= 1 /\ forks \notin Listed

\* A driver inherits only what is listed, and works only once it is listed itself.
ForkInv ==
    \A p \in Pids :
        /\ inherited[p] \subseteq Listed
        /\ p > forks <=> dstate[p] = "unborn"
        /\ dstate[p] = "run" => p \in Listed

\* Whoever lives is listed or being created, and so is a FIFO for answers; "exit"
\* ends the listed ones and takes their FIFOs.
CleanInv ==
    /\ \A p \in Pids : Alive(p) => dpc # "exited" /\ (p \in Listed \/ (p = forks /\ dpc # "loop"))
    /\ \A p \in Pids : <<p, "resp">> \in fifos =>
          \/ p \in Listed /\ dpc # "exited"
          \/ p = forks /\ dpc \in {"open_cmd", "add", "crashed"}
    /\ dpc = "exited" => \A f \in fifos : f[1] \notin Listed

\* What a driver that works wrote last is what it is; nothing is written before.
TalkInv ==
    \A p \in Pids :
        /\ dstate[p] \in Starting \union {"unborn"} => ~busy[p] /\ resp[p] = <<>>
        /\ dstate[p] = "run" /\ resp[p] # <<>> => (Last(resp[p]) = "Busy" <=> busy[p])

\* The dispatcher knows what it has read, unless it threw something away.
KnownInv ==
    \A k \in DOMAIN drivers :
        LET p == drivers[k].pid
        IN dpc \notin Gone /\ dstate[p] = "run" /\ cmd[p] = <<>> /\ resp[p] = <<>> /\ p \notin lost
               => (drivers[k].status = "Busy" <=> busy[p])

\* The inductive invariant.
IndInv == TypeInv /\ ListInv /\ ForkInv /\ CleanInv /\ TalkInv /\ KnownInv

-----------------------------------------------------------------------------
(* Facts about the operators *)

Statuses == {"Unknown", "Available", "Busy"}

\* What a read or a task does to the array: one status, nothing else.
LEMMA SetStatus ==
  ASSUME TypeInv, NEW k \in DOMAIN drivers, NEW s \in Statuses,
         drivers' = [drivers EXCEPT ![k].status = s]
  PROVE  /\ drivers' \in Seq(Entries) /\ DOMAIN drivers' = DOMAIN drivers
         /\ \A j \in DOMAIN drivers : /\ drivers'[j].pid = drivers[j].pid
                                      /\ j # k => drivers'[j].status = drivers[j].status
         /\ drivers'[k].status = s
         /\ Listed' = Listed
<1>1. /\ DOMAIN drivers = 1 .. Len(drivers) /\ Len(drivers) \in Nat
      /\ \A j \in DOMAIN drivers : drivers[j] \in Entries
  BY LenProperties, ElementOfSeq DEF TypeInv
<1>2. [drivers[k] EXCEPT !.status = s] \in Entries
  BY <1>1 DEF Entries, Statuses
<1>3. drivers' = [drivers EXCEPT ![k] = [drivers[k] EXCEPT !.status = s]]
  OBVIOUS
<1>4. drivers' \in Seq(Entries) /\ Len(drivers') = Len(drivers) /\ DOMAIN drivers' = DOMAIN drivers
  BY <1>1, <1>2, <1>3, ExceptSeq DEF TypeInv
<1>5. \A j \in DOMAIN drivers : /\ drivers'[j].pid = drivers[j].pid
                                /\ j # k => drivers'[j].status = drivers[j].status
  BY <1>1, <1>3 DEF Entries
<1>6. drivers'[k].status = s
  BY <1>1, <1>3 DEF Entries
<1>. QED
  BY <1>4, <1>5, <1>6 DEF Listed

LEMMA PutLast ==
  ASSUME NEW S, NEW s \in Seq(S), NEW e \in S
  PROVE  /\ Append(s, e) \in Seq(S) /\ Append(s, e) # <<>>
         /\ Last(Append(s, e)) = e
BY AppendProperties, LenProperties DEF Last

\* The entries of drivers[] name drivers.
LEMMA ListedTypes ==
  ASSUME TypeInv
  PROVE  /\ DOMAIN drivers = 1 .. Len(drivers) /\ Len(drivers) \in Nat
         /\ \A k \in DOMAIN drivers : drivers[k] \in Entries /\ drivers[k].pid \in Pids /\ drivers[k].pid \in Listed
         /\ Listed \subseteq Pids
<1>1. /\ DOMAIN drivers = 1 .. Len(drivers) /\ Len(drivers) \in Nat
      /\ \A k \in DOMAIN drivers : drivers[k] \in Entries
  BY LenProperties, ElementOfSeq DEF TypeInv
<1>. QED
  BY <1>1 DEF Entries, Listed

-----------------------------------------------------------------------------
(* Steps of the drivers *)

\* A step of driver p after which some drivers are dead, p perhaps among them, and
\* some FIFOs are gone keeps what the array and the file system have to do with the drivers.
LEMMA DriverMoves ==
  ASSUME IndInv, NEW p \in Pids, Alive(p), UNCHANGED <<dpc, forks, drivers, inherited>>,
         dstate' \in [Pids -> {"run", "dead", "unborn"} \union Starting],
         \A q \in Pids \ {p} : dstate'[q] \in {dstate[q], "dead"},
         \A q \in Pids : dstate[q] = "unborn" => dstate'[q] = "unborn",
         dstate'[p] # "unborn", dstate'[p] = "run" => p \in Listed,
         fifos' \subseteq fifos
  PROVE  ListInv' /\ ForkInv' /\ CleanInv'
<1>1. Listed' = Listed
  BY DEF Listed
<1>2. ListInv'
  BY <1>1 DEF IndInv, ListInv
<1>3. ForkInv'
  BY <1>1 DEF IndInv, ForkInv, Alive
<1>4. \A q \in Pids : Alive(q)' => Alive(q)
  BY DEF Alive
<1>5. CleanInv'
  BY <1>1, <1>4 DEF IndInv, CleanInv
<1>. QED
  BY <1>2, <1>3, <1>5

\* Drivers that die, and a driver that goes on opening, leave the talk as it was.
LEMMA QuietDrivers ==
  ASSUME IndInv, UNCHANGED <<list, busy, cmd, resp, lost>>,
         \A q \in Pids : dstate'[q] \in {dstate[q], "dead"} \/ (dstate[q] \in Starting /\ dstate'[q] \in Starting)
  PROVE  TalkInv' /\ KnownInv'
<1>1. TalkInv'
  BY DEF IndInv, TalkInv, Starting
<1>2. KnownInv'
  BY ListedTypes DEF IndInv, KnownInv, list, Starting
<1>. QED
  BY <1>1, <1>2

\* exit() in a driver ends that driver and those it inherited, none of them unborn.
LEMMA ExitingDriver ==
  ASSUME IndInv, NEW p \in Pids, Alive(p), DriverExit(p),
         UNCHANGED <<list, inherited, busy, armed, cmd, resp, lost>>
  PROVE  IndInv'
<1>1. \A q \in inherited[p] : q \in Pids /\ dstate[q] # "unborn"
  <2>1. forks \in Nat /\ \A q \in inherited[p] : q \in Pids /\ q <= forks
    BY DEF IndInv, TypeInv, ForkInv, ListInv
  <2>. QED
    BY <2>1 DEF IndInv, ForkInv, Pids
<1>2. /\ dstate' \in [Pids -> {"run", "dead", "unborn"} \union Starting]
      /\ \A q \in Pids : dstate'[q] \in {dstate[q], "dead"}
      /\ dstate'[p] = "dead" /\ fifos' \subseteq fifos
  BY DEF DriverExit, IndInv, TypeInv
<1>3. \A q \in Pids : dstate[q] = "unborn" => dstate'[q] = "unborn"
  BY <1>1 DEF DriverExit, Alive
<1>4. ListInv' /\ ForkInv' /\ CleanInv'
  BY <1>2, <1>3, DriverMoves DEF list
<1>5. TalkInv' /\ KnownInv'
  BY <1>2, QuietDrivers
<1>6. TypeInv'
  BY <1>2 DEF IndInv, TypeInv, list
<1>. QED
  BY <1>4, <1>5, <1>6 DEF IndInv

LEMMA DriverOpenCmdStep ==
  ASSUME IndInv, NEW p \in Pids, DriverOpenCmd(p)
  PROVE  IndInv'
<1>. USE DEF DriverOpenCmd
<1>1. CASE <<p, "cmd">> \in fifos
  <2>1. /\ dstate' \in [Pids -> {"run", "dead", "unborn"} \union Starting]
        /\ dstate'[p] = "open_resp" /\ \A q \in Pids \ {p} : dstate'[q] = dstate[q]
    BY <1>1 DEF IndInv, TypeInv, Starting
  <2>2. ListInv' /\ ForkInv' /\ CleanInv'
    BY <1>1, <2>1, DriverMoves DEF list, Alive
  <2>3. TalkInv' /\ KnownInv'
    BY <2>1, QuietDrivers DEF Starting
  <2>4. TypeInv'
    BY <1>1, <2>1 DEF IndInv, TypeInv, list
  <2>. QED
    BY <2>2, <2>3, <2>4 DEF IndInv
<1>2. CASE <<p, "cmd">> \notin fifos
  BY <1>2, ExitingDriver DEF Alive
<1>. QED
  BY <1>1, <1>2

LEMMA DriverOpenRespStep ==
  ASSUME IndInv, NEW p \in Pids, DriverOpenResp(p)
  PROVE  IndInv'
<1>. USE DEF DriverOpenResp
<1>1. CASE <<p, "resp">> \in fifos
  <2>1. /\ dstate' \in [Pids -> {"run", "dead", "unborn"} \union Starting]
        /\ dstate'[p] = "wait_resp" /\ \A q \in Pids \ {p} : dstate'[q] = dstate[q]
    BY <1>1 DEF IndInv, TypeInv, Starting
  <2>2. ListInv' /\ ForkInv' /\ CleanInv'
    BY <1>1, <2>1, DriverMoves DEF list, Alive
  <2>3. TalkInv' /\ KnownInv'
    BY <2>1, QuietDrivers DEF Starting
  <2>4. TypeInv'
    BY <1>1, <2>1 DEF IndInv, TypeInv, list
  <2>. QED
    BY <2>2, <2>3, <2>4 DEF IndInv
<1>2. CASE <<p, "resp">> \notin fifos
  BY <1>2, ExitingDriver DEF Alive
<1>. QED
  BY <1>1, <1>2

\* Somebody who listens to a driver proves that it is listed.
LEMMA HeardIsListed ==
  ASSUME IndInv, NEW p \in Pids, Holders(p) # {}
  PROVE  p \in Listed
BY DEF IndInv, ForkInv, Holders

\* A message that a working driver writes tells what it is.
LEMMA Announces ==
  ASSUME IndInv, NEW p \in Pids, NEW m \in {"Available", "Busy"},
         UNCHANGED <<list, inherited, fifos, lost>>, armed' \subseteq Pids,
         cmd' \in [Pids -> Seq(Durations)], \A q \in Pids \ {p} : cmd'[q] = cmd[q],
         resp' = [resp EXCEPT ![p] = Append(@, m)],
         busy' \in [Pids -> BOOLEAN], busy'[p] <=> m = "Busy",
         \A q \in Pids \ {p} : busy'[q] = busy[q],
         dstate' = [dstate EXCEPT ![p] = "run"], Alive(p), p \in Listed
  PROVE  IndInv'
<1>1. /\ dstate' \in [Pids -> {"run", "dead", "unborn"} \union Starting]
      /\ dstate'[p] = "run" /\ \A q \in Pids \ {p} : dstate'[q] = dstate[q]
  BY DEF IndInv, TypeInv
<1>2. ListInv' /\ ForkInv' /\ CleanInv'
  BY <1>1, DriverMoves DEF list, Alive
<1>3. /\ resp' \in [Pids -> Seq({"Available", "Busy"})]
      /\ resp'[p] # <<>> /\ Last(resp'[p]) = m
      /\ \A q \in Pids \ {p} : resp'[q] = resp[q]
  BY PutLast DEF IndInv, TypeInv
<1>4. TypeInv'
  BY <1>1, <1>3 DEF IndInv, TypeInv, list
<1>5. TalkInv'
  BY <1>1, <1>3 DEF IndInv, TalkInv, Starting
<1>6. KnownInv'
  <2>. SUFFICES ASSUME NEW k \in DOMAIN drivers', NEW q, q = drivers'[k].pid,
                       (dpc \notin Gone)', dstate'[q] = "run", cmd'[q] = <<>>, resp'[q] = <<>>,
                       (q \notin lost)'
                PROVE  drivers'[k].status = "Busy" <=> busy'[q]
    BY DEF KnownInv
  <2>1. k \in DOMAIN drivers /\ q = drivers[k].pid /\ q \in Pids
    BY ListedTypes DEF IndInv, list
  <2>2. q # p
    BY <1>3
  <2>3. dstate[q] = "run" /\ cmd[q] = <<>> /\ resp[q] = <<>> /\ busy'[q] = busy[q]
    BY <1>1, <1>3, <2>1, <2>2
  <2>4. dpc \notin Gone /\ q \notin lost /\ drivers' = drivers
    BY DEF list, Gone
  <2>. QED
    BY <2>1, <2>3, <2>4 DEF IndInv, KnownInv
<1>. QED
  BY <1>2, <1>4, <1>5, <1>6 DEF IndInv

\* SIGPIPE: what a dead driver did last no longer matters.
LEMMA Silenced ==
  ASSUME IndInv, NEW p \in Pids,
         UNCHANGED <<list, inherited, fifos, resp, lost>>, armed' \subseteq Pids,
         cmd' \in [Pids -> Seq(Durations)], \A q \in Pids \ {p} : cmd'[q] = cmd[q],
         busy' \in [Pids -> BOOLEAN],
         \A q \in Pids \ {p} : busy'[q] = busy[q],
         dstate' = [dstate EXCEPT ![p] = "dead"], Alive(p)
  PROVE  IndInv'
<1>1. /\ dstate' \in [Pids -> {"run", "dead", "unborn"} \union Starting]
      /\ dstate'[p] = "dead" /\ \A q \in Pids \ {p} : dstate'[q] = dstate[q]
  BY DEF IndInv, TypeInv
<1>2. ListInv' /\ ForkInv' /\ CleanInv'
  BY <1>1, DriverMoves DEF list, Alive
<1>4. TypeInv'
  BY <1>1 DEF IndInv, TypeInv, list
<1>5. TalkInv'
  BY <1>1 DEF IndInv, TalkInv, Starting
<1>6. KnownInv'
  BY <1>1, ListedTypes DEF IndInv, KnownInv, list
<1>. QED
  BY <1>2, <1>4, <1>5, <1>6 DEF IndInv

LEMMA DriverReadyStep ==
  ASSUME IndInv, NEW p \in Pids, DriverReady(p)
  PROVE  IndInv'
<1>. USE DEF DriverReady
<1>1. p \in Listed /\ Alive(p) /\ ~busy[p]
  BY HeardIsListed DEF Alive, IndInv, TalkInv, Starting
<1>. QED
  BY <1>1, Announces DEF IndInv, TypeInv

LEMMA DriverTaskStep ==
  ASSUME IndInv, NEW p \in Pids, DriverTask(p)
  PROVE  IndInv'
<1>. USE DEF DriverTask
<1>1. /\ cmd' \in [Pids -> Seq(Durations)] /\ \A q \in Pids \ {p} : cmd'[q] = cmd[q]
      /\ busy' \in [Pids -> BOOLEAN] /\ busy'[p] /\ \A q \in Pids \ {p} : busy'[q] = busy[q]
      /\ armed' \subseteq Pids /\ Alive(p) /\ dstate \in [Pids -> {"unborn", "run", "dead"} \union Starting]
  BY EmptySeq DEF IndInv, TypeInv, Alive
<1>2. CASE Holders(p) # {}
  <2>1. dstate' = [dstate EXCEPT ![p] = "run"] /\ resp' = [resp EXCEPT ![p] = Append(@, "Busy")]
    BY <1>1, <1>2 DEF Reply
  <2>. QED
    BY <1>1, <1>2, <2>1, HeardIsListed, Announces
<1>3. CASE Holders(p) = {}
  BY <1>1, <1>3, Silenced DEF Reply
<1>. QED
  BY <1>2, <1>3

LEMMA DriverTimerStep ==
  ASSUME IndInv, NEW p \in Pids, DriverTimer(p)
  PROVE  IndInv'
<1>. USE DEF DriverTimer
<1>1. /\ cmd' \in [Pids -> Seq(Durations)] /\ \A q \in Pids \ {p} : cmd'[q] = cmd[q]
      /\ busy' \in [Pids -> BOOLEAN] /\ ~busy'[p] /\ \A q \in Pids \ {p} : busy'[q] = busy[q]
      /\ armed' \subseteq Pids /\ Alive(p) /\ dstate \in [Pids -> {"unborn", "run", "dead"} \union Starting]
  BY DEF IndInv, TypeInv, Alive
<1>2. CASE Holders(p) # {}
  <2>1. dstate' = [dstate EXCEPT ![p] = "run"] /\ resp' = [resp EXCEPT ![p] = Append(@, "Available")]
    BY <1>1, <1>2 DEF Reply
  <2>. QED
    BY <1>1, <1>2, <2>1, HeardIsListed, Announces
<1>3. CASE Holders(p) = {}
  BY <1>1, <1>3, Silenced DEF Reply
<1>. QED
  BY <1>2, <1>3

LEMMA DriverEofStep ==
  ASSUME IndInv, NEW p \in Pids, DriverEof(p)
  PROVE  IndInv'
BY ExitingDriver DEF DriverEof, Alive

LEMMA KillDriverStep ==
  ASSUME IndInv, NEW p \in Pids, KillDriver(p)
  PROVE  IndInv'
<1>. USE DEF KillDriver
<1>1. /\ dstate' \in [Pids -> {"run", "dead", "unborn"} \union Starting]
      /\ dstate'[p] = "dead" /\ \A q \in Pids \ {p} : dstate'[q] = dstate[q]
  BY DEF IndInv, TypeInv
<1>2. ListInv' /\ ForkInv' /\ CleanInv'
  BY <1>1, DriverMoves DEF list, pipes, Alive
<1>3. TalkInv' /\ KnownInv'
  BY <1>1, QuietDrivers DEF pipes
<1>4. TypeInv'
  BY <1>1 DEF IndInv, TypeInv, list, pipes
<1>. QED
  BY <1>2, <1>3, <1>4 DEF IndInv

-----------------------------------------------------------------------------
(* Steps of the dispatcher *)

LEMMA InitInv == Init => IndInv
<1>. SUFFICES ASSUME Init PROVE IndInv
  OBVIOUS
<1>1. Listed = {} /\ DOMAIN drivers = {}
  BY DEF Init, Listed
<1>2. TypeInv
  BY TaxiAssumption, EmptySeq DEF Init, TypeInv, Pids
<1>3. ListInv /\ ForkInv /\ CleanInv
  BY <1>1, TaxiAssumption DEF Init, ListInv, ForkInv, CleanInv, Creating, Alive, Pids
<1>4. TalkInv /\ KnownInv
  BY <1>1 DEF Init, TalkInv, KnownInv
<1>. QED
  BY <1>2, <1>3, <1>4 DEF IndInv

LEMMA ForkStep ==
  ASSUME IndInv, Fork
  PROVE  IndInv'
<1>. USE DEF Fork
<1>1. /\ forks \in Nat /\ forks' = forks + 1 /\ forks' \in Pids /\ MaxForks \in Nat
      /\ dstate' \in [Pids -> {"unborn", "run", "dead"} \union Starting]
      /\ dstate'[forks'] = "open_cmd" /\ \A p \in Pids \ {forks'} : dstate'[p] = dstate[p]
      /\ inherited'[forks'] = Listed /\ \A p \in Pids \ {forks'} : inherited'[p] = inherited[p]
      /\ inherited' \in [Pids -> SUBSET Pids]
  BY TaxiAssumption, ListedTypes DEF IndInv, TypeInv, Pids, Starting
<1>2. Listed' = Listed /\ \A p \in Listed : p <= forks /\ p \in Pids
  BY ListedTypes DEF Listed, IndInv, ListInv
<1>3. dstate[forks'] = "unborn"
  BY <1>1 DEF IndInv, ForkInv
<1>4. TypeInv'
  BY <1>1 DEF IndInv, TypeInv, Creating, Pids, pipes
<1>5. ListInv'
  <2>1. \A p \in Listed : p \in Int /\ p <= forks /\ p # forks'
    BY <1>1, <1>2 DEF Pids
  <2>. QED
    BY <1>1, <1>2, <2>1 DEF IndInv, ListInv
<1>6. ForkInv'
  BY <1>1, <1>2 DEF IndInv, ForkInv, Pids
<1>7. CleanInv'
  BY <1>1, <1>2 DEF IndInv, CleanInv, Alive, pipes
<1>8. TalkInv'
  BY <1>1, <1>3 DEF IndInv, TalkInv, Starting, pipes
<1>9. KnownInv'
  BY <1>1, ListedTypes DEF IndInv, KnownInv, Gone, pipes
<1>. QED
  BY <1>4, <1>5, <1>6, <1>7, <1>8, <1>9 DEF IndInv

LEMMA MkfifoStep ==
  ASSUME IndInv, Mkfifo
  PROVE  IndInv'
<1>. USE DEF Mkfifo
<1>1. Listed' = Listed /\ dpc \in Creating /\ dpc' \in Creating
  BY DEF Listed, Creating
<1>2. forks \in Pids
  BY <1>1 DEF IndInv, ListInv, TypeInv, Pids
<1>3. TypeInv'
  BY <1>1, <1>2 DEF IndInv, TypeInv, driver, bounds
<1>4. ListInv' /\ ForkInv'
  BY <1>1 DEF IndInv, ListInv, ForkInv, driver
<1>5. CleanInv'
  <2>1. \A p \in Pids : Alive(p)' <=> Alive(p)
    BY DEF Alive, driver
  <2>. QED
    BY <1>1, <2>1 DEF IndInv, CleanInv, Creating
<1>6. TalkInv'
  BY DEF IndInv, TalkInv, driver
<1>7. KnownInv'
  BY DEF IndInv, KnownInv, driver, Gone
<1>. QED
  BY <1>3, <1>4, <1>5, <1>6, <1>7 DEF IndInv

LEMMA MkfifoFailsStep ==
  ASSUME IndInv, MkfifoFails
  PROVE  IndInv'
<1>. USE DEF MkfifoFails
<1>1. Listed' = Listed /\ dpc \in Creating /\ dpc' = "loop" /\ forks \in Pids
  BY DEF Listed, Creating, IndInv, ListInv, TypeInv, Pids
<1>2. /\ dstate' \in [Pids -> {"unborn", "run", "dead"} \union Starting]
      /\ dstate'[forks] = "dead" /\ \A q \in Pids \ {forks} : dstate'[q] = dstate[q]
  BY <1>1 DEF IndInv, TypeInv
<1>3. TypeInv'
  BY <1>1, <1>2 DEF IndInv, TypeInv, pipes
<1>4. ListInv'
  BY <1>1 DEF IndInv, ListInv, Creating
<1>5. ForkInv'
  BY <1>1, <1>2 DEF IndInv, ForkInv, ListInv, TypeInv, Pids
<1>6. CleanInv'
  BY <1>1, <1>2 DEF IndInv, CleanInv, Alive, pipes
<1>7. TalkInv'
  BY <1>1, <1>2 DEF IndInv, TalkInv, Starting, pipes
<1>8. KnownInv'
  BY <1>1, <1>2, ListedTypes DEF IndInv, KnownInv, Gone, Creating, pipes
<1>. QED
  BY <1>3, <1>4, <1>5, <1>6, <1>7, <1>8 DEF IndInv

LEMMA OpenCmdStep ==
  ASSUME IndInv, OpenCmd
  PROVE  IndInv'
<1>. USE DEF OpenCmd
<1>1. Listed' = Listed /\ \A p \in Pids : Alive(p)' <=> Alive(p)
  BY DEF Listed, Alive, driver
<1>2. TypeInv'
  BY DEF IndInv, TypeInv, driver, pipes, Creating
<1>3. ListInv' /\ ForkInv'
  BY <1>1 DEF IndInv, ListInv, ForkInv, driver, Creating
<1>4. CleanInv'
  BY <1>1 DEF IndInv, CleanInv, pipes
<1>5. TalkInv' /\ KnownInv'
  BY DEF IndInv, TalkInv, KnownInv, driver, pipes, Gone
<1>. QED
  BY <1>2, <1>3, <1>4, <1>5 DEF IndInv

LEMMA AddDriverStep ==
  ASSUME IndInv, AddDriver
  PROVE  IndInv'
<1>. USE DEF AddDriver
<1>. DEFINE e == [pid |-> forks, status |-> "Unknown"]
<1>1. forks \in Pids /\ forks \notin Listed /\ e \in Entries
  BY DEF IndInv, ListInv, TypeInv, Pids, Entries, Creating
<1>2. /\ drivers' \in Seq(Entries) /\ DOMAIN drivers' = 1 .. Len(drivers) + 1
      /\ \A k \in 1 .. Len(drivers) : drivers'[k] = drivers[k]
      /\ drivers'[Len(drivers) + 1] = e /\ Len(drivers) \in Nat /\ DOMAIN drivers = 1 .. Len(drivers)
  BY <1>1, AppendProperties, LenProperties DEF IndInv, TypeInv
<1>3. Listed' = Listed \union {forks}
  BY <1>2 DEF Listed
<1>4. TypeInv'
  BY <1>2 DEF IndInv, TypeInv, driver, pipes
<1>5. ListInv'
  <2>1. \A k \in 1 .. Len(drivers) : drivers[k].pid # forks
    BY <1>1, <1>2 DEF Listed
  <2>2. \A i, j \in DOMAIN drivers' : drivers'[i].pid = drivers'[j].pid => i = j
    BY <1>2, <2>1 DEF IndInv, ListInv
  <2>3. forks \in Nat /\ \A p \in Listed \union {forks} : p <= forks
    BY DEF IndInv, ListInv, TypeInv
  <2>. QED
    BY <1>3, <2>2, <2>3 DEF ListInv, Creating
<1>6. ForkInv'
  BY <1>3 DEF IndInv, ForkInv, driver
<1>7. CleanInv'
  BY <1>3 DEF IndInv, CleanInv, Alive, driver, pipes
<1>8. TalkInv'
  BY DEF IndInv, TalkInv, driver, pipes
<1>9. KnownInv'
  <2>1. dstate[forks] # "run"
    BY <1>1 DEF IndInv, ForkInv
  <2>. QED
    BY <1>2, <2>1 DEF IndInv, KnownInv, Gone, driver, pipes
<1>. QED
  BY <1>4, <1>5, <1>6, <1>7, <1>8, <1>9 DEF IndInv

\* A dispatcher that is gone knows nothing; its drivers stay what they were.
LEMMA CrashStep ==
  ASSUME IndInv, dpc \notin Gone, dpc' = "crashed", UNCHANGED <<forks, drivers, driver, pipes, lost>>
  PROVE  IndInv'
<1>1. Listed' = Listed /\ \A p \in Pids : Alive(p)' <=> Alive(p)
  BY DEF Listed, Alive, driver
<1>2. TypeInv'
  BY DEF IndInv, TypeInv, driver, pipes, Gone
<1>3. ListInv' /\ ForkInv'
  BY <1>1 DEF IndInv, ListInv, ForkInv, driver, Creating
<1>4. CleanInv'
  BY <1>1 DEF IndInv, CleanInv, pipes, Gone
<1>5. TalkInv' /\ KnownInv'
  BY DEF IndInv, TalkInv, KnownInv, driver, pipes, Gone
<1>. QED
  BY <1>2, <1>3, <1>4, <1>5 DEF IndInv

LEMMA KillDispatcherStep ==
  ASSUME IndInv, KillDispatcher
  PROVE  IndInv'
BY CrashStep DEF KillDispatcher

LEMMA SendTaskStep ==
  ASSUME IndInv, NEW k \in DOMAIN drivers, NEW secs \in Durations, SendTask(k, secs)
  PROVE  IndInv'
<1>. USE DEF SendTask
<1>. DEFINE p == drivers[k].pid
<1>0. p \in Pids
  BY ListedTypes DEF IndInv
<1>1. CASE ReadsCmd(p)
  <2>1. /\ drivers' \in Seq(Entries) /\ DOMAIN drivers' = DOMAIN drivers
        /\ \A j \in DOMAIN drivers : /\ drivers'[j].pid = drivers[j].pid
                                     /\ j # k => drivers'[j].status = drivers[j].status
        /\ Listed' = Listed
    BY <1>1, SetStatus DEF Statuses, IndInv
  <2>2. /\ cmd' \in [Pids -> Seq(Durations)] /\ cmd'[p] # <<>>
        /\ \A q \in Pids \ {p} : cmd'[q] = cmd[q]
    <3>1. cmd \in [Pids -> Seq(Durations)] /\ cmd' = [cmd EXCEPT ![p] = Append(@, secs)]
      BY <1>1 DEF IndInv, TypeInv
    <3>2. cmd[p] \in Seq(Durations)
      BY <1>0, <3>1
    <3>. HIDE DEF p
    <3>3. Append(cmd[p], secs) \in Seq(Durations) /\ Append(cmd[p], secs) # <<>>
      BY <3>2, PutLast
    <3>. QED
      BY <1>0, <3>1, <3>3
  <2>3. dpc = "loop" /\ dpc' = "loop"
    BY <1>1
  <2>4. TypeInv'
    BY <2>1, <2>2, <2>3 DEF IndInv, TypeInv, driver
  <2>5. ListInv' /\ ForkInv'
    BY <2>1, <2>3 DEF IndInv, ListInv, ForkInv, driver, Creating
  <2>6. CleanInv'
    BY <2>1, <2>3 DEF IndInv, CleanInv, Alive, driver
  <2>7. TalkInv'
    BY DEF IndInv, TalkInv, driver
  <2>8. KnownInv'
    <3>. SUFFICES ASSUME NEW j \in DOMAIN drivers, cmd'[drivers[j].pid] = <<>>,
                         dstate[drivers[j].pid] = "run", resp[drivers[j].pid] = <<>>,
                         drivers[j].pid \notin lost
                  PROVE  drivers'[j].status = "Busy" <=> busy[drivers[j].pid]
      BY <2>1 DEF KnownInv, driver
    <3>1. drivers[j].pid \in Pids /\ drivers[j].pid # p /\ j # k
      BY <2>2, ListedTypes DEF IndInv
    <3>. QED
      BY <2>1, <2>2, <2>3, <3>1 DEF IndInv, KnownInv, Gone
  <2>. QED
    BY <2>4, <2>5, <2>6, <2>7, <2>8 DEF IndInv
<1>2. CASE ~ReadsCmd(p)
  BY <1>2, CrashStep DEF pipes, Gone
<1>. QED
  BY <1>1, <1>2

LEMMA ReadStep ==
  ASSUME IndInv, NEW k \in DOMAIN drivers, handle_driver_message(k)
  PROVE  IndInv'
<1>. USE DEF handle_driver_message
<1>. DEFINE p == drivers[k].pid
<1>0. p \in Pids /\ resp[p] \in Seq({"Available", "Busy"}) /\ resp[p] # <<>>
  BY ListedTypes DEF IndInv, TypeInv
<1>1. Head(resp[p]) \in Statuses
  BY <1>0, HeadTailProperties DEF Statuses
<1>2. /\ drivers' \in Seq(Entries) /\ DOMAIN drivers' = DOMAIN drivers
      /\ \A j \in DOMAIN drivers : /\ drivers'[j].pid = drivers[j].pid
                                   /\ j # k => drivers'[j].status = drivers[j].status
      /\ drivers'[k].status = Head(resp[p]) /\ Listed' = Listed
  BY <1>1, SetStatus DEF IndInv
<1>3. /\ resp' \in [Pids -> Seq({"Available", "Busy"})]
      /\ resp'[p] = <<>> /\ \A q \in Pids \ {p} : resp'[q] = resp[q]
  BY <1>0, EmptySeq DEF IndInv, TypeInv
<1>4. TypeInv'
  BY <1>2, <1>3 DEF IndInv, TypeInv, driver
<1>5. ListInv' /\ ForkInv'
  BY <1>2 DEF IndInv, ListInv, ForkInv, driver, Creating
<1>6. CleanInv'
  BY <1>2 DEF IndInv, CleanInv, Alive, driver
<1>7. TalkInv'
  BY <1>3 DEF IndInv, TalkInv, driver
<1>8. KnownInv'
  <2>. SUFFICES ASSUME NEW j \in DOMAIN drivers, cmd[drivers[j].pid] = <<>>,
                       dstate[drivers[j].pid] = "run", resp'[drivers[j].pid] = <<>>,
                       drivers[j].pid \notin lost'
                PROVE  drivers'[j].status = "Busy" <=> busy[drivers[j].pid]
    BY <1>2 DEF KnownInv, driver
  <2>0. drivers[j].pid \in Pids
    BY ListedTypes DEF IndInv
  <2>1. CASE j = k
    BY <2>1, <1>0, <1>2 DEF IndInv, TalkInv
  <2>2. CASE j # k
    <3>1. drivers[j].pid # p
      BY <2>2 DEF IndInv, ListInv
    <3>. QED
      BY <1>2, <1>3, <2>0, <2>2, <3>1 DEF IndInv, KnownInv, Gone
  <2>. QED
    BY <2>1, <2>2
<1>. QED
  BY <1>4, <1>5, <1>6, <1>7, <1>8 DEF IndInv

\* "exit": nobody is being created, so the listed drivers are all there are.
LEMMA ExitStep ==
  ASSUME IndInv, Exit
  PROVE  IndInv'
<1>. USE DEF Exit
<1>1. Listed' = Listed /\ Listed \subseteq Pids
  BY ListedTypes DEF Listed, IndInv
<1>2. /\ dstate' \in [Pids -> {"unborn", "run", "dead"} \union Starting]
      /\ \A q \in Pids : dstate'[q] = IF q \in Listed THEN "dead" ELSE dstate[q]
      /\ fifos' = {f \in fifos : f[1] \notin Listed}
  BY DEF cleanup, IndInv, TypeInv
<1>3. TypeInv'
  BY <1>2 DEF IndInv, TypeInv, Gone
<1>4. ListInv'
  BY <1>1 DEF IndInv, ListInv, Creating
<1>5. ForkInv'
  <2>1. \A q \in Listed : dstate[q] # "unborn"
    <3>1. \A q \in Listed : q \in Pids /\ q <= forks
      BY <1>1 DEF IndInv, ListInv
    <3>. QED
      BY <3>1 DEF IndInv, ForkInv, TypeInv, Pids
  <2>. QED
    BY <1>1, <1>2, <2>1 DEF IndInv, ForkInv
<1>6. CleanInv'
  BY <1>1, <1>2 DEF IndInv, CleanInv, Alive
<1>7. TalkInv' /\ KnownInv'
  BY <1>2 DEF IndInv, TalkInv, KnownInv, Gone, Starting
<1>. QED
  BY <1>3, <1>4, <1>5, <1>6, <1>7 DEF IndInv

-----------------------------------------------------------------------------
LEMMA NextInv == IndInv /\ [Next]_vars => IndInv'
<1>. SUFFICES ASSUME IndInv, [Next]_vars PROVE IndInv'
  OBVIOUS
<1>1. CASE User
  BY <1>1, ForkStep, ExitStep, SendTaskStep DEF User
<1>2. CASE Dispatcher
  BY <1>2, MkfifoStep, MkfifoFailsStep, OpenCmdStep, AddDriverStep, ReadStep DEF Dispatcher
<1>3. CASE KillDispatcher
  BY <1>3, KillDispatcherStep
<1>4. ASSUME NEW p \in Pids, driver_main(p) PROVE IndInv'
  BY <1>4, DriverOpenCmdStep, DriverOpenRespStep, DriverReadyStep, DriverTaskStep, DriverTimerStep,
     DriverEofStep DEF driver_main
<1>5. ASSUME NEW p \in Pids, KillDriver(p) PROVE IndInv'
  BY <1>5, KillDriverStep
<1>6. CASE UNCHANGED vars
  BY <1>6 DEF vars, list, driver, pipes, bounds, IndInv, TypeInv, ListInv, ForkInv, CleanInv, TalkInv,
              KnownInv, Listed, Alive
<1>. QED
  BY <1>1, <1>2, <1>3, <1>4, <1>5, <1>6 DEF Next

LEMMA Invariance == Spec => []IndInv
BY InitInv, NextInv, PTL DEF Spec

\* The dispatcher's table and the drivers agree whenever no task is under way and no
\* read dropped the latest message, for any number of drivers and tasks
\* (handle_driver_message, send_task and the driver's loop).
THEOREM TableFollowsDrivers == Spec => []StatusFollowsDriver
<1>1. IndInv => StatusFollowsDriver
  BY ListedTypes DEF IndInv, TalkInv, KnownInv, StatusFollowsDriver, Belief
<1>. QED
  BY <1>1, Invariance, PTL

\* "exit" ends every driver and removes every FIFO of a listed one, whatever the
\* drivers were doing and however many FIFOs could not be made (cleanup, atexit).
THEOREM ExitIsClean == Spec => []CleanExit
<1>1. IndInv => CleanExit
  <2>. SUFFICES ASSUME IndInv, dpc = "exited"
                PROVE  /\ \A p \in Pids : ~Alive(p)
                       /\ \A f \in fifos : f[2] = "cmd" /\ f[1] \notin Listed
    BY DEF CleanExit
  <2>1. \A f \in fifos : f = <<f[1], f[2]>> /\ f[1] \in Pids /\ f[2] \in {"cmd", "resp"}
    BY DEF IndInv, TypeInv
  <2>. QED
    BY <2>1 DEF IndInv, CleanInv
<1>. QED
  BY <1>1, Invariance, PTL
=============================================================================

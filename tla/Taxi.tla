--------------------------------- MODULE Taxi ---------------------------------
(***************************************************************************)
(* module2/cross2/taxi.c: a dispatcher forks driver processes on the user's *)
(* command and talks to each over two FIFOs: tasks go down "cmd", states    *)
(* come back up "resp".  A driver runs one task at a time on a timer.       *)
(*                                                                          *)
(* Drivers are numbered in the order of their forks.  One read returns all  *)
(* the lines a FIFO holds, and both sides look at the first one only.  A    *)
(* driver inherits the dispatcher's open descriptors, its drivers[] and its *)
(* atexit handler.  epoll reports a FIFO whose writer is gone as EPOLLHUP,  *)
(* which main does not act on; a write without a reader is a deadly SIGPIPE.*)
(***************************************************************************)
EXTENDS Integers, FiniteSets, SequencesExt

CONSTANTS
    MAX_DRIVERS, \* size of drivers[]
    MaxForks,    \* bound on create_driver commands
    Durations,   \* seconds of a task
    MaxTasks,    \* bound on send_task commands that reach a driver
    MaxFaults    \* bound on failing mkfifos and kills

ASSUME TaxiAssumption ==
    /\ MAX_DRIVERS \in Nat \ {0} /\ MaxForks \in Nat
    /\ Durations \subseteq Nat /\ MaxTasks \in Nat /\ MaxFaults \in Nat

Pids == 1 .. MaxForks

VARIABLES
    dpc,       \* where the dispatcher is
    forks,     \* drivers forked; the last one is being created outside "loop"
    drivers,   \* the dispatcher's array: [pid, status]
    dstate,    \* where each driver is
    inherited, \* the pids in each driver's copy of drivers[]
    busy,      \* "busy" of each driver
    armed,     \* drivers whose timer runs
    fifos,     \* FIFOs in the file system: <<pid, "cmd" or "resp">>
    met,       \* drivers whose cmd had a reader while the dispatcher opened it
    cmd, resp, \* contents of the FIFOs
    tasks, faults, \* user commands and faults so far
    lost       \* history: drivers of which a read threw away the latest message

list    == <<dpc, forks, drivers>>
driver  == <<dstate, inherited, busy, armed>>
pipes   == <<fifos, met, cmd, resp>>
bounds  == <<tasks, faults>>
vars    == <<list, driver, pipes, bounds, lost>>

Creating == {"mkfifo_cmd", "mkfifo_resp", "open_cmd", "add"}
Gone     == {"exited", "crashed"}

Init ==
    /\ dpc = "loop" /\ forks = 0 /\ drivers = <<>>
    /\ dstate = [p \in Pids |-> "unborn"] /\ inherited = [p \in Pids |-> {}]
    /\ busy = [p \in Pids |-> FALSE] /\ armed = {}
    /\ fifos = {} /\ met = {}
    /\ cmd = [p \in Pids |-> <<>>] /\ resp = [p \in Pids |-> <<>>]
    /\ tasks = 0 /\ faults = 0 /\ lost = {}

Listed == {drivers[k].pid : k \in DOMAIN drivers}
Alive(p) == dstate[p] \notin {"unborn", "dead"}

\* The processes that hold the dispatcher's two ends of p's FIFOs.
Holders(p) == {q \in Pids : Alive(q) /\ p \in inherited[q]}
                  \union (IF dpc \notin Gone /\ p \in Listed THEN {0} ELSE {})

\* The driver itself is the only reader of its commands.
ReadsCmd(p) == dstate[p] \in {"open_resp", "wait_resp", "run"}

-----------------------------------------------------------------------------
(* The dispatcher *)

\* create_driver: the driver is running before its FIFOs are made.
Fork ==
    /\ dpc = "loop" /\ Len(drivers) < MAX_DRIVERS /\ forks < MaxForks
    /\ forks' = forks + 1 /\ dpc' = "mkfifo_cmd"
    /\ dstate' = [dstate EXCEPT ![forks'] = "open_cmd"]
    /\ inherited' = [inherited EXCEPT ![forks'] = Listed]
    /\ UNCHANGED <<drivers, busy, armed, pipes, bounds, lost>>

Mkfifo ==
    /\ \/ dpc = "mkfifo_cmd" /\ fifos' = fifos \union {<<forks, "cmd">>}
                             /\ dpc' = "mkfifo_resp"
       \/ dpc = "mkfifo_resp" /\ fifos' = fifos \union {<<forks, "resp">>}
                              /\ dpc' = "open_cmd"
    /\ UNCHANGED <<forks, drivers, driver, met, cmd, resp, bounds, lost>>

\* A failing mkfifo: the driver is killed, the first FIFO stays.
MkfifoFails ==
    /\ dpc \in {"mkfifo_cmd", "mkfifo_resp"}
    /\ faults < MaxFaults /\ faults' = faults + 1
    /\ dstate' = [dstate EXCEPT ![forks] = "dead"]
    /\ dpc' = "loop"
    /\ UNCHANGED <<forks, drivers, inherited, busy, armed, pipes, tasks, lost>>

\* open(cmd, O_WRONLY) waits for a reader.
OpenCmd ==
    /\ dpc = "open_cmd" /\ (ReadsCmd(forks) \/ forks \in met)
    /\ dpc' = "add"
    /\ UNCHANGED <<forks, drivers, driver, pipes, bounds, lost>>

AddDriver ==
    /\ dpc = "add"
    /\ drivers' = Append(drivers, [pid |-> forks, status |-> "Unknown"])
    /\ dpc' = "loop"
    /\ UNCHANGED <<forks, driver, pipes, bounds, lost>>

\* send_task to a driver that is not Busy: a dead one is the dispatcher's end.
SendTask(k, secs) ==
    LET p == drivers[k].pid
    IN /\ dpc = "loop" /\ tasks < MaxTasks
       /\ drivers[k].status # "Busy"
       /\ tasks' = tasks + 1
       /\ IF ReadsCmd(p)
          THEN /\ cmd' = [cmd EXCEPT ![p] = Append(@, secs)]
               /\ drivers' = [drivers EXCEPT ![k].status = "Busy"]
               /\ UNCHANGED dpc
          ELSE dpc' = "crashed" /\ UNCHANGED <<cmd, drivers>>
       /\ UNCHANGED <<forks, driver, fifos, met, resp, faults, lost>>

\* handle_driver_message: everything is read, the first line counts.
handle_driver_message(k) ==
    LET p == drivers[k].pid
    IN /\ dpc = "loop" /\ resp[p] # <<>>
       /\ drivers' = [drivers EXCEPT ![k].status = Head(resp[p])]
       /\ resp' = [resp EXCEPT ![p] = <<>>]
       /\ lost' = IF Last(resp[p]) # Head(resp[p]) THEN lost \union {p} ELSE lost \ {p}
       /\ UNCHANGED <<dpc, forks, driver, fifos, met, cmd, bounds>>

\* Mutant: the last driver is forgotten.
cleanup_OffByOne(S) ==
    LET T == {p \in S : \E q \in S : q > p}
    IN /\ dstate' = [p \in Pids |-> IF p \in T THEN "dead" ELSE dstate[p]]
       /\ fifos' = {f \in fifos : f[1] \notin T}

\* SIGTERM to each driver, and its FIFOs go.
cleanup(S) ==
    /\ dstate' = [p \in Pids |-> IF p \in S THEN "dead" ELSE dstate[p]]
    /\ fifos' = {f \in fifos : f[1] \notin S}

\* "exit" or the end of the input.
Exit ==
    /\ dpc = "loop"
    /\ cleanup(Listed)
    /\ dpc' = "exited"
    /\ UNCHANGED <<forks, drivers, inherited, busy, armed, met, cmd, resp, bounds, lost>>

-----------------------------------------------------------------------------
(* A driver *)

\* exit(): the inherited handler cleans up the drivers created before this one.
DriverExit(p) ==
    LET S == inherited[p]
    IN /\ dstate' = [q \in Pids |-> IF q \in S \union {p} THEN "dead" ELSE dstate[q]]
       /\ fifos' = {f \in fifos : f[1] \notin S}

\* Mutant: the driver opens resp first, which waits for the dispatcher.
DriverOpenCmd_RespFirst(p) ==
    /\ dstate[p] = "open_cmd"
    /\ p \in Listed
    /\ dstate' = [dstate EXCEPT ![p] = "open_resp"] /\ UNCHANGED <<fifos, met>>
    /\ UNCHANGED <<list, inherited, busy, armed, cmd, resp, bounds, lost>>

\* open(cmd, O_RDONLY | O_NONBLOCK): at once, or the FIFO is not there yet.
DriverOpenCmd(p) ==
    /\ dstate[p] = "open_cmd"
    /\ IF <<p, "cmd">> \in fifos
       THEN /\ dstate' = [dstate EXCEPT ![p] = "open_resp"]
            /\ met' = IF dpc = "open_cmd" THEN met \union {p} ELSE met
            /\ UNCHANGED fifos
       ELSE DriverExit(p) /\ UNCHANGED met
    /\ UNCHANGED <<list, inherited, busy, armed, cmd, resp, bounds, lost>>

\* open(resp, O_WRONLY): waits for the dispatcher, or fails.
DriverOpenResp(p) ==
    /\ dstate[p] = "open_resp"
    /\ IF <<p, "resp">> \in fifos
       THEN dstate' = [dstate EXCEPT ![p] = "wait_resp"] /\ UNCHANGED fifos
       ELSE DriverExit(p)
    /\ UNCHANGED <<list, inherited, busy, armed, met, cmd, resp, bounds, lost>>

\* write to resp, which kills a driver nobody listens to.
Reply(p, m) ==
    IF Holders(p) # {} THEN resp' = [resp EXCEPT ![p] = Append(@, m)] /\ UNCHANGED dstate
                       ELSE dstate' = [dstate EXCEPT ![p] = "dead"] /\ UNCHANGED resp

DriverReady(p) ==
    /\ dstate[p] = "wait_resp" /\ Holders(p) # {}
    /\ resp' = [resp EXCEPT ![p] = Append(@, "Available")]
    /\ dstate' = [dstate EXCEPT ![p] = "run"]
    /\ UNCHANGED <<list, inherited, busy, armed, fifos, met, cmd, bounds, lost>>

\* Everything is read, the first task counts; a busy driver only answers.
DriverTask(p) ==
    /\ dstate[p] = "run" /\ cmd[p] # <<>>
    /\ cmd' = [cmd EXCEPT ![p] = <<>>]
    /\ busy' = [busy EXCEPT ![p] = TRUE]
    /\ armed' = IF busy[p] \/ Head(cmd[p]) = 0 THEN armed ELSE armed \union {p}
    /\ Reply(p, "Busy")
    /\ UNCHANGED <<list, inherited, fifos, met, bounds, lost>>

\* Mutant: the dispatcher is not told.
DriverTimer_Silent(p) ==
    /\ dstate[p] = "run" /\ p \in armed
    /\ busy' = [busy EXCEPT ![p] = FALSE] /\ armed' = armed \ {p}
    /\ UNCHANGED <<dstate, resp>>
    /\ UNCHANGED <<list, inherited, fifos, met, cmd, bounds, lost>>

DriverTimer(p) ==
    /\ dstate[p] = "run" /\ p \in armed
    /\ busy' = [busy EXCEPT ![p] = FALSE] /\ armed' = armed \ {p}
    /\ Reply(p, "Available")
    /\ UNCHANGED <<list, inherited, fifos, met, cmd, bounds, lost>>

\* Mutant: end of file is not noticed.
DriverEof_Ignored(p) ==
    /\ dstate[p] = "run" /\ cmd[p] = <<>> /\ Holders(p) = {}
    /\ UNCHANGED vars

\* read returns 0: nobody holds the other end of cmd any more.
DriverEof(p) ==
    /\ dstate[p] = "run" /\ cmd[p] = <<>> /\ Holders(p) = {}
    /\ DriverExit(p)
    /\ UNCHANGED <<list, inherited, busy, armed, met, cmd, resp, bounds, lost>>

-----------------------------------------------------------------------------
KillDriver(p) ==
    /\ Alive(p)
    /\ faults < MaxFaults /\ faults' = faults + 1
    /\ dstate' = [dstate EXCEPT ![p] = "dead"]
    /\ UNCHANGED <<list, inherited, busy, armed, pipes, tasks, lost>>

KillDispatcher ==
    /\ dpc \notin Gone
    /\ faults < MaxFaults /\ faults' = faults + 1
    /\ dpc' = "crashed"
    /\ UNCHANGED <<forks, drivers, driver, pipes, tasks, lost>>

User == Fork \/ Exit \/ \E k \in DOMAIN drivers, secs \in Durations : SendTask(k, secs)

Dispatcher ==
    \/ Mkfifo \/ MkfifoFails \/ OpenCmd \/ AddDriver
    \/ \E k \in DOMAIN drivers : handle_driver_message(k)

driver_main(p) ==
    \/ DriverOpenCmd(p) \/ DriverOpenResp(p) \/ DriverReady(p)
    \/ DriverTask(p) \/ DriverTimer(p) \/ DriverEof(p)

Next ==
    \/ User \/ Dispatcher \/ KillDispatcher
    \/ \E p \in Pids : driver_main(p) \/ KillDriver(p)

Spec == Init /\ [][Next]_vars

\* The processes run; the user need not type anything.
FairSpec ==
    /\ Spec /\ WF_vars(Dispatcher)
    /\ \A p \in Pids : WF_vars(driver_main(p))

-----------------------------------------------------------------------------
(* Properties *)

\* What the dispatcher will believe of a driver when it has read its messages.
Belief(k) == LET p == drivers[k].pid
             IN IF resp[p] = <<>> THEN drivers[k].status ELSE Last(resp[p])

\* With no task under way, the dispatcher's status, once it has read what waits,
\* is the driver's: every change is announced, and an optimistic "Busy" is
\* confirmed.  The exception is a read that dropped the latest message.
StatusFollowsDriver ==
    \A k \in DOMAIN drivers :
        LET p == drivers[k].pid
        IN dstate[p] = "run" /\ cmd[p] = <<>> /\ p \notin lost /\ dpc \notin Gone
               => (Belief(k) = "Busy" <=> busy[p])

\* "exit" leaves no driver behind, and no FIFO but the one whose partner could
\* not be made ("Cleanup all drivers and FIFOs", taxi.c:43).
CleanExit ==
    dpc = "exited" => /\ \A p \in Pids : ~Alive(p)
                      /\ \A f \in fifos : f[2] = "cmd" /\ f[1] \notin Listed

\* create_driver comes to an end, unless the driver died too early to open its
\* end, as it does when it is faster than the dispatcher's mkfifo.
CreateEnds ==
    dpc \in Creating ~> dpc \notin Creating \/ dstate[forks] = "dead"

\* A dispatcher that dies takes its drivers with it: the youngest sees the end of
\* its commands, and its exit handler ends the others.  A driver that still waits
\* for the dispatcher to open resp keeps itself and all the others.
OrphansEnd ==
    dpc = "crashed" ~> \/ \A p \in Pids : ~Alive(p)
                       \/ \E p \in Pids : dstate[p] = "wait_resp"

\* "Remove driver from list (called when resp_fd hangs up)", taxi.c:72.
DeadDriverRemoved ==
    \A p \in Pids : (p \in Listed /\ ~Alive(p)) ~> (p \notin Listed \/ dpc \in Gone)
=============================================================================

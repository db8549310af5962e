----------------------------- MODULE SetService -----------------------------
(***************************************************************************)
(* What module1/task4/task4.c promises to those who hand it work: sets are  *)
(* posted, each is handed to one worker, who reports on it unless it dies;  *)
(* the service closes, and workers retire, when no set waits any more.      *)
(***************************************************************************)
CONSTANTS
    Workers,
    Sets

VARIABLES
    posted,   \* the sets posted so far
    taken,    \* those that were handed to a worker
    holds,    \* holds[w]: what worker w has taken and not reported on yet
    reported, \* the sets whose result is known
    finished, \* nothing more will be posted
    closed,   \* the place where the sets waited is gone
    retired,  \* the workers that were told there is nothing left
    crashed   \* the workers that died

serviceVars == <<posted, taken, holds, reported, finished, closed, retired, crashed>>

Init ==
    /\ posted = {} /\ taken = {} /\ reported = {}
    /\ holds = [w \in Workers |-> {}]
    /\ finished = FALSE /\ closed = FALSE
    /\ retired = {} /\ crashed = {}

NothingWaits == posted = taken

\* At work: neither retired nor dead.
Working(w) == w \notin retired \union crashed

Post(s) ==
    /\ ~finished /\ ~closed /\ s \notin posted
    /\ posted' = posted \union {s}
    /\ UNCHANGED <<taken, holds, reported, finished, closed, retired, crashed>>

Finish ==
    /\ ~finished /\ finished' = TRUE
    /\ UNCHANGED <<posted, taken, holds, reported, closed, retired, crashed>>

\* A worker with empty hands is given a set that nobody was given before.
Take(w, s) ==
    /\ Working(w) /\ holds[w] = {} /\ ~closed
    /\ s \in posted \ taken
    /\ taken' = taken \union {s}
    /\ holds' = [holds EXCEPT ![w] = {s}]
    /\ UNCHANGED <<posted, reported, finished, closed, retired, crashed>>

Report(w) ==
    /\ Working(w) /\ holds[w] # {}
    /\ reported' = reported \union holds[w]
    /\ holds' = [holds EXCEPT ![w] = {}]
    /\ UNCHANGED <<posted, taken, finished, closed, retired, crashed>>

Retire(w) ==
    /\ Working(w) /\ holds[w] = {} /\ finished /\ NothingWaits
    /\ retired' = retired \union {w}
    /\ UNCHANGED <<posted, taken, holds, reported, finished, closed, crashed>>

\* The only way to lose a set that was taken.
Crash(w) ==
    /\ Working(w)
    /\ crashed' = crashed \union {w}
    /\ holds' = [holds EXCEPT ![w] = {}]
    /\ UNCHANGED <<posted, taken, reported, finished, closed, retired>>

Close ==
    /\ ~closed /\ closed' = TRUE /\ NothingWaits
    /\ UNCHANGED <<posted, taken, holds, reported, finished, retired, crashed>>

Next ==
    \/ Finish \/ Close
    \/ \E s \in Sets : Post(s)
    \/ \E w \in Workers : Report(w) \/ Retire(w) \/ Crash(w)
    \/ \E w \in Workers, s \in Sets : Take(w, s)

Spec == Init /\ [][Next]_serviceVars
=============================================================================

--------------------------- MODULE PriorityService ---------------------------
(***************************************************************************)
(* What module2/4.2/priority_queue.c promises: requests wait with their     *)
(* priority and the order they came in; one is taken from those of a range  *)
(* of priorities, the highest first and among equals the earliest.          *)
(***************************************************************************)
EXTENDS Integers

CONSTANTS
    MAX_PRIORITY, \* priorities are 0 .. MAX_PRIORITY - 1
    MaxArrivals   \* bound on the requests

VARIABLES
    waiting, \* [order, priority] of the requests that wait
    arrived, \* how many have come
    taken    \* the outcome of the latest take, <<>> for "nothing there"

Init == waiting = {} /\ arrived = 0 /\ taken = <<>>

Put == \E p \in 0 .. MAX_PRIORITY - 1 :
    /\ arrived < MaxArrivals /\ arrived' = arrived + 1
    /\ waiting' = waiting \union {[order |-> arrived', priority |-> p]}
    /\ UNCHANGED taken

Before(r, s) == \/ r.priority > s.priority
                \/ r.priority = s.priority /\ r.order < s.order

Take(low, high) ==
    LET fit == {r \in waiting : r.priority \in low .. high}
    IN /\ \/ fit = {} /\ taken' = <<>> /\ UNCHANGED waiting
          \/ \E r \in fit : /\ \A s \in fit \ {r} : Before(r, s)
                            /\ taken' = <<r>> /\ waiting' = waiting \ {r}
       /\ UNCHANGED arrived

Next == Put \/ \E low, high \in 0 .. MAX_PRIORITY - 1 : Take(low, high)

Spec == Init /\ [][Next]_<<waiting, arrived, taken>>
=============================================================================

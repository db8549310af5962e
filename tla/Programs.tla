------------------------------- MODULE Programs -------------------------------
(***************************************************************************)
(* A small instance of Concurrent, with the phone tree beside it in the     *)
(* same way.                                                                *)
(***************************************************************************)
EXTENDS Concurrent

VARIABLES
    \* PhoneTree
    root, entered, shown

ptVars == <<root, entered, shown>>

\* Two clients with numbers of their own, and one that shares a number or reads
\* everything.
ThreeNumbers == <<{20}, {30}, {0, 30}>>

\* Enough contacts for a double rotation, and for equal ones.
Tree == INSTANCE PhoneTree WITH
    LastNames <- 1 .. 3, FirstNames <- {1, 2}, MaxContacts <- 5

AllInit == Init /\ Tree!Init

AllNext == \/ Next /\ UNCHANGED ptVars
           \/ program = "tree" /\ Tree!Next /\ UNCHANGED vars

AllSpec == AllInit /\ [][AllNext]_<<vars, ptVars>>

-----------------------------------------------------------------------------
\* The phone tree keeps, orders and finds its contacts.
TreeKeepsContacts == program = "tree" => Tree!TreeKeepsContacts
=============================================================================

------------------------------ MODULE PhoneTree ------------------------------
(***************************************************************************)
(* module2/4.3/main.c: a phone book in a self-balancing tree.               *)
(*                                                                          *)
(* A contact is <<last name, first name>>, names being ordered numbers.  A  *)
(* tree is a nested record; Null has the height 0 the code gives a missing  *)
(* node, and Wreck stands for the fault of following one (the process ends).*)
(***************************************************************************)
EXTENDS Integers, SequencesExt

CONSTANTS
    LastNames, FirstNames,
    MaxContacts \* bound on the contacts added

VARIABLES
    root,
    entered, \* history: the contacts added
    shown    \* what the latest search found, or Null

ptVars == <<root, entered, shown>>

Null  == [height |-> 0]
Wreck == [height |-> -1]

Contacts   == LastNames \X FirstNames
Less(a, b) == a[1] < b[1] \/ (a[1] = b[1] /\ a[2] < b[2])
Higher(a, b) == IF a > b THEN a ELSE b

\* Every change of a node's subtrees is followed by its height.
Node(c, l, r) == [data |-> c, left |-> l, right |-> r,
                  height |-> 1 + Higher(l.height, r.height)]

createNode(c) == Node(c, Null, Null)

rotateRight(y) ==
    LET x == y.left
    IN IF x.height < 1 THEN Wreck
       ELSE Node(x.data, x.left, Node(y.data, x.right, y.right))

rotateLeft(x) ==
    LET y == x.right
    IN IF y.height < 1 THEN Wreck
       ELSE Node(y.data, Node(x.data, x.left, y.left), y.right)

getBalance(n) == IF n = Null THEN 0 ELSE n.left.height - n.right.height

\* Mutant: no double rotation where the new contact is in the middle.
Rebalance_Single(n, c) ==
    LET b == getBalance(n)
    IN CASE b > 1  -> rotateRight(n)
         [] b < -1 -> rotateLeft(n)
         [] OTHER  -> n

\* The four cases at the end of insert: c is the new contact.  Equal contacts
\* fall through all of them.
Rebalance(n, c) ==
    LET b == getBalance(n)
    IN CASE b > 1  /\ Less(c, n.left.data)  -> rotateRight(n)
         [] b < -1 /\ Less(n.right.data, c) -> rotateLeft(n)
         [] b > 1  /\ Less(n.left.data, c)  ->
              LET l == rotateLeft(n.left)
              IN IF l = Wreck THEN Wreck ELSE rotateRight(Node(n.data, l, n.right))
         [] b < -1 /\ Less(c, n.right.data) ->
              LET r == rotateRight(n.right)
              IN IF r = Wreck THEN Wreck ELSE rotateLeft(Node(n.data, n.left, r))
         [] OTHER -> n

RECURSIVE insert(_, _)
insert(n, c) ==
    IF n = Null THEN createNode(c)
    ELSE LET l == IF Less(c, n.data) THEN insert(n.left, c) ELSE n.left
             r == IF Less(c, n.data) THEN n.right ELSE insert(n.right, c)
         IN IF Wreck \in {l, r} THEN Wreck ELSE Rebalance(Node(n.data, l, r), c)

RECURSIVE search(_, _)
search(n, name) ==
    CASE n = Null              -> Null
      [] n # Null /\ name = n.data[1] -> n
      [] n # Null /\ name < n.data[1] -> search(n.left, name)
      [] OTHER                 -> search(n.right, name)

\* printTree, from the bottom of the page to its top.
RECURSIVE printTree(_)
printTree(n) == IF n = Null THEN <<>>
                ELSE printTree(n.left) \o <<n.data>> \o printTree(n.right)

-----------------------------------------------------------------------------
(* main *)

Init == root = Null /\ entered = <<>> /\ shown = Null

Add == \E c \in Contacts :
    /\ root # Wreck /\ Len(entered) < MaxContacts
    /\ root' = insert(root, c)
    /\ entered' = Append(entered, c) /\ UNCHANGED shown

Find == \E name \in LastNames :
    /\ root # Wreck
    /\ shown' = search(root, name) /\ UNCHANGED <<root, entered>>

Next == Add \/ Find

Spec == Init /\ [][Next]_ptVars

-----------------------------------------------------------------------------
(* Properties *)

RECURSIVE Balanced(_)
Balanced(n) == n = Null \/ (/\ getBalance(n) \in -1 .. 1
                            /\ Balanced(n.left) /\ Balanced(n.right))

\* The page shows every contact entered, as often as it was entered and in
\* order, and a search finds a name when it was entered.  While no contact is
\* entered twice the tree is balanced, and inserting never follows a missing
\* node; with equal contacts, which no rotation separates, it may.
TreeKeepsContacts ==
    /\ root # Wreck =>
         /\ printTree(root) = SortSeq(entered, LAMBDA a, b : Less(a, b) )
         /\ \A name \in LastNames :
              (search(root, name) # Null) <=> \E i \in DOMAIN entered : entered[i][1] = name
    /\ IsInjective(entered) => root # Wreck /\ Balanced(root)
=============================================================================

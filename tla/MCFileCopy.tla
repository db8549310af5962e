------------------------------ MODULE MCFileCopy ------------------------------
(***************************************************************************)
(* A small instance of FileCopy.  a is a block and a half long, e is empty, *)
(* x is missing.  a already has a copy, of the same contents, which may    *)
(* be an argument as well: the second run of "filecopy *" in a directory.   *)
(***************************************************************************)
EXTENDS FileCopy

CONSTANTS a, e, x, acopy, ecopy, xcopy, acopy2

MCNames == {a, e, x, acopy, ecopy, xcopy, acopy2}

MCCopyOf == [n \in MCNames |->
    CASE n = a -> acopy [] n = e -> ecopy [] n = x -> xcopy
      [] n = acopy -> acopy2 [] OTHER -> x]

MCContent == [n \in MCNames |->
    CASE n \in {a, acopy} -> <<1, 2, 3>> [] n = e -> <<>> [] OTHER -> NoFile]

MCArgLists == {<<x, a, acopy>>, <<a, acopy, e>>, <<e, a>>}
RerunArgs  == {<<a, acopy>>}
=============================================================================

--------------------------- MODULE MCIndexTables ---------------------------
(* Small instances of IndexTables for TLC.                                 *)
EXTENDS IndexTables

TwoMembers == {"a", "b"}
ThreePackages == {"a/x", "a/y", "b/z"}

(* Two modules side by side; b implements an interface of a.               *)
SideBySide == [p \in ThreePackages |-> IF p = "b/z" THEN "b" ELSE "a"]
Alone == [p \in ThreePackages |-> {SideBySide[p]}]

(* b's checkout is a directory of a's, with a go.mod and a path of its own.*)
Within == [p \in ThreePackages |-> IF p = "b/z" THEN {"a", "b"} ELSE {"a"}]
Lengths == [m \in TwoMembers |-> IF m = "a" THEN 1 ELSE 2]

Calls == {<<"a/x", "a/y">>, <<"b/z", "a/x">>}
Implements == {<<"a/y", "a/x">>, <<"b/z", "a/y">>}

(* A change in place, and one that moves the declaration.                  *)
Lines == <<1, 1, 2>>
=============================================================================

-------------------------- MODULE MCIndexFreshness --------------------------
(* Small instances of IndexFreshness for TLC.                              *)
EXTENDS IndexFreshness, TLC

CONSTANTS a, b, mod  \* two Go files and go.mod

OneServedRepo == [p \in Servers |-> CHOOSE c \in Checkouts : TRUE]

(* Version 2 of b is a syntax error.                                       *)
BrokenB == {<<b, 2>>}
NoneBroken == {}

(* What the environment may do to which file.                              *)
NewContent  == {"modify"} \X Files
ShrinkOnly  == ({"modify"} \X Files) \cup {<<"delete", b>>}
ModifyA     == {<<"modify", a>>}
QuietEdits  == {<<"modify", a>>, <<"revert", a>>, <<"create", b>>,
                <<"delete", b>>}

BothFiles == {[c \in Checkouts |-> [f \in Files |-> 1]]}
OneFile   == {[c \in Checkouts |-> [f \in Files |-> IF f = b THEN 0 ELSE 1]]}

(* Two checkouts of one module that differ in a.                           *)
QuietTrees ==
  {[c \in Checkouts |-> [f \in Files |->
     CASE f = b -> 0
       [] f = a /\ c = (CHOOSE d \in Checkouts : TRUE) -> 2
       [] OTHER -> 1]]}
=============================================================================

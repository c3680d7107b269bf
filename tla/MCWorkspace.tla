---------------------------- MODULE MCWorkspace ----------------------------
(* Small instances of Workspace for TLC.                                   *)
EXTENDS Workspace

(* What is edited in codemap.yaml: nothing, or a member is added.          *)
Unchanging == {}
MemberTwoAdded == {<<{1}, {1, 2}>>}
=============================================================================

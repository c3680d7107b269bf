CONSTANTS
  Members = {1, 2}
  Servers = {s1}
  Clis = {i1}
  MaxVersion = 2
  InitAnalyzers = {"none", "this"}
  Edits = {"modify", "revert", "vanish", "return", "write"}
  EditsWhileBusy = FALSE
  Configs <- Unchanging
  Faults = {"early"}
  MaxFaults = 1
SPECIFICATION Spec
INVARIANTS TypeOK WalkLeavesFresh WorkspaceInv
CHECK_DEADLOCK FALSE

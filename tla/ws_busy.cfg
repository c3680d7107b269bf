CONSTANTS
  Members = {1, 2}
  Servers = {s1}
  Clis = {}
  MaxVersion = 2
  InitAnalyzers = {"none", "this"}
  Edits = {"modify", "vanish", "write"}
  EditsWhileBusy = TRUE
  Configs <- MemberTwoAdded
  Faults = {"early", "late", "record", "crash"}
  MaxFaults = 1
SPECIFICATION FairSpec
INVARIANT CurrentMemberIsFresh
PROPERTIES CallsEnd Settles
CHECK_DEADLOCK FALSE

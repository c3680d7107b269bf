CONSTANTS
  Servers = {s1}
  Clis = {}
  Checkouts = {c1}
  ServedRepo <- OneServedRepo
  a = a  b = b  mod = mod
  GoFiles = {a, b}
  GoMod = mod
  MaxVersion = 2
  Broken <- NoneBroken
  InitSources <- BothFiles
  Edits <- ModifyA
  EditsWhileBusy = TRUE
  Overlap = TRUE
  Faults = {}
  MaxFaults = 0
SPECIFICATION Spec
INVARIANT CurrentIndexIsFresh
CHECK_DEADLOCK FALSE

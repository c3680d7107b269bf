CONSTANTS
  Servers = {s1}
  Clis = {i1}
  Checkouts = {c1, c2}
  ServedRepo <- OneServedRepo
  a = a  b = b  mod = mod
  GoFiles = {a, b}
  GoMod = mod
  MaxVersion = 2
  Broken <- BrokenB
  InitSources <- QuietTrees
  Edits <- QuietEdits
  EditsWhileBusy = FALSE
  Overlap = FALSE
  Faults = {"early"}
  MaxFaults = 1
SPECIFICATION Spec
INVARIANTS TypeOK FreshnessInv
CHECK_DEADLOCK FALSE

CONSTANTS
  Servers = {s1}
  Clis = {}
  Checkouts = {c1}
  ServedRepo <- OneServedRepo
  a = a  b = b  mod = mod
  GoFiles = {a, b}
  GoMod = mod
  MaxVersion = 2
  Broken <- BrokenB
  InitSources <- BothFiles
  Edits <- ShrinkOnly
  EditsWhileBusy = TRUE
  Overlap = TRUE
  Faults = {"early", "late", "crash"}
  MaxFaults = 1
SPECIFICATION FairSpec
INVARIANT NoStaleText
PROPERTY Settles
CHECK_DEADLOCK FALSE

CONSTANTS
  Servers = {s1}
  Clis = {i1}
  Checkouts = {c1}
  ServedRepo <- OneServedRepo
  a = a  b = b  mod = mod
  GoFiles = {a, b}
  GoMod = mod
  MaxVersion = 2
  Broken <- NoneBroken
  InitSources <- BothFiles
  Edits <- NewContent
  EditsWhileBusy = FALSE
  Overlap = TRUE
  Faults = {"early", "late", "crash"}
  MaxFaults = 1
SPECIFICATION FairSpec
INVARIANTS CurrentIndexIsFresh AnswersAreLatest
PROPERTIES CallsEnd SettlesFresh
CHECK_DEADLOCK FALSE

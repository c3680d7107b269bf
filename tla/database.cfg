CONSTANTS
  Members <- TwoMembers
  Packages <- ThreePackages
  Module <- SideBySide
  Prefix <- Alone
  In <- Alone
  DirLength <- Lengths
  Imports <- Calls
  Satisfies <- Implements
  MaxVersion = 3
  Line <- Lines
  BatchSize = 3
  SwitchesMode = FALSE
  Servers = {s1}
  Indexers = {i1}
  Databases <- TheDatabases
  MaxCrashes = 1
SPECIFICATION DatabaseSpec
INVARIANTS RowsAttributed EdgesOfSymbols TextOfSymbols TextIsFiles
INVARIANTS OpenedIsCurrent RowsSurvive
PROPERTIES KeepsPromise Opens
CHECK_DEADLOCK FALSE

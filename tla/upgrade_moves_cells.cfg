CONSTANTS
  Servers = {s1}
  Indexers = {}
  Databases <- OldDatabase
  MaxCrashes = 0
SPECIFICATION SchemaSpec
INVARIANT CellsKept
CHECK_DEADLOCK FALSE

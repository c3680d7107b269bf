CONSTANTS
  Procs = {p1, p2}
  Repos = {"a", "b"}
  Linked <- Links
  MaxVersion = 2
  MaxRare = 1
SPECIFICATION FairSpec
INVARIANT FreshIsCurrent
PROPERTY ContractsSettle

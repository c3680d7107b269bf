CONSTANTS
  Limit = 13
  HeaderRoom = 2
  MinChunk = 3
  Servers = {s1, s2}
  Payloads <- SomePayloads
  Header <- OneLine
  Gap <- Blank
  Notice <- FourOrFive
  Truncated <- OneLine
  CapBytes = 36
  MaxGeneration = 1
  Instants <- Times
SPECIFICATION Spec
INVARIANTS StoredWhole ReadsBack CapHolds
PROPERTY EvictsAsNeeded
SYMMETRY Alike
CHECK_DEADLOCK FALSE

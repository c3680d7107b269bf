CONSTANTS
  Files <- SomeFiles
  Package <- InPackage
  TestFiles = {"a_test.go"}
  Names = {"F", "g", "h", "T", "n"}
  Exported = {"F", "T"}
  Source <- Tree
  MaxEdits = 1
  MaxCalls = 2
SPECIFICATION Spec
INVARIANTS CodeCompiles NothingLost
PROPERTY RenameExact
CHECK_DEADLOCK FALSE

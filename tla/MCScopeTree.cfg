SPECIFICATION Spec
CONSTANTS
  Resource = {r1, r2}
  MaxTrees = 2
  MaxSerial = 4
  MaxDepth = 2
INVARIANTS
  ArenaInStep
PROPERTIES
  NameNeverComesBack
  ImplementsForest
CHECK_DEADLOCK FALSE

SPECIFICATION Spec
CONSTANTS
  Page = {"List", "Item"}
  Param = {"one", "two"}
  Keep = {"Item"}
  MaxWindows = 2
  MaxScopes = 5
  Together = FALSE
  Fails = TRUE
  MainCloses = FALSE
  Late = FALSE
INVARIANTS
  EveryPageShowsItsNode
PROPERTIES
  NothingEditedGoesUnasked
  EndsWithItsWindows
CHECK_DEADLOCK FALSE

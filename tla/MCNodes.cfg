SPECIFICATION NodesSpec
CONSTANTS
  Route = {"list1", "list2", "editor", "detail"}
  Chain <- MCChain
  First = "list1"
  Cached = {"List", "Detail"}
  Keep = {}
  Minds = {"Editor"}
  Speaks = {"Shell", "List", "Editor"}
  Observes = {"Editor"}
  Slots = {1, 2, 3, 4, 5, 6, 7, 8, 9}
  MaxKept = 1
  SettleRounds = 2
  MaxInbox = 2
  MaxNavigations = 1
INVARIANTS
  EverySegmentIsDrawn
  GuardsReadTheirNodes
PROPERTIES
  ImplementsPages
CHECK_DEADLOCK FALSE

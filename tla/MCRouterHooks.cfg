SPECIFICATION FairSpec
CONSTANTS
  Route = {"editor", "tab", "tab2"}
  Chain <- MCChain
  Keep = {"Tab", "Page"}
  CacheState = {"Editor"}
  EnterGuarded = {}
  LeaveGuarded = {"Editor"}
  Habit = {"leaveAsk", "frames", "wake", "hook", "fail", "failBack", "activate", "deactivate"}
  MaxNavigations = 3
  MaxScopes = 12
  MaxCached = 1
PROPERTIES
  NavigationsSettle
CHECK_DEADLOCK FALSE

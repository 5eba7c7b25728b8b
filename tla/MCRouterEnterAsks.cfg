SPECIFICATION Spec
CONSTANTS
  Route = {"editor", "other"}
  Chain <- MCChain
  Keep = {"Tab", "Page"}
  CacheState = {"Editor"}
  EnterGuarded = {"other"}
  LeaveGuarded = {"Editor"}
  Habit = {"enterAsk"}
  MaxNavigations = 3
  MaxScopes = 12
  MaxCached = 1
INVARIANTS
  EveryGuardIsAsked
CHECK_DEADLOCK FALSE

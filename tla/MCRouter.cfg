SPECIFICATION Spec
CONSTANTS
  Route = {"editor", "editor2", "tab", "nest", "other"}
  Chain <- MCChain
  Keep = {"Tab", "Page"}
  CacheState = {"Editor"}
  EnterGuarded = {"other"}
  LeaveGuarded = {"Editor"}
  Habit = {"leaveAsk", "frames", "fail"}
  MaxNavigations = 5
  MaxScopes = 12
  MaxCached = 1
INVARIANTS
  ScopesAccountedFor
  EveryGuardIsAsked
  NavigationsAccountedFor
  AtTheRouteThatStands
PROPERTIES
  FrameUndisturbed
  ImplementsHistory
CHECK_DEADLOCK FALSE

SPECIFICATION Spec
CONSTANTS
  Plugins <- MCPlugins
  Features <- MCFeatures
  Segments <- MCSegments
  Exports <- MCExports
  Reducer = {"draft"}
  Action = {"save"}
  MaxBodies = 3
  MaxSaid = 4
  Swallow = FALSE
  Retry = FALSE
  Nest = FALSE
INVARIANTS
  BuiltOnce
  ReadersAreAnswered
  ExportsAreClaimed
  LastSetUpGoesFirst
CHECK_DEADLOCK FALSE

SPECIFICATION FairSpec
CONSTANTS
  k1 = k1
  k2 = k2
  listener = listener
  page = page
  agent = agent
  callback = callback
  Kind = {k1, k2}
  Hearer = {listener, page, agent, callback}
  Answers = {page, agent, callback}
  InScope = {listener, page, agent}
  Hears <- MCHears
  Place <- MCPlace
  Style <- MCStyle
  MaxCalls = 2
  MaxChanges = 3
  Nobody = Nobody
INVARIANTS
  RepliesHaveOneWay
  NobodyWaitsForItself
PROPERTIES
  ImplementsPromises
  AnsweredWithoutTimeout
CHECK_DEADLOCK FALSE

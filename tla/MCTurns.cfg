SPECIFICATION FairSpec
CONSTANTS
  Actor = {a1, a2}
  o1 = o1
  l1 = l1
  l2 = l2
  c1 = c1
  c2 = c2
  s1 = s1
  s2 = s2
  Observer = {o1}
  Listener = {l1, l2}
  Cell = {c1, c2}
  Scope = {s1, s2}
  Update = {u1, u2}
  Home <- MCHome
  Watches <- MCWatches
  Does <- MCDoes
  SettleRounds = 2
  MaxEffects <- MCMaxEffects
  MaxSends = 3
  Nobody = Nobody
  Bare = Bare
INVARIANTS
  StackInOrder
  NothingIsMissed
PROPERTIES
  SettledBeforeTelling
  ImplementsMailboxes
  DrainEnds
CHECK_DEADLOCK FALSE

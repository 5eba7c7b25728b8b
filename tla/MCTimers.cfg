SPECIFICATION FairSpec
CONSTANTS
  Timer = {t}
  MaxChanges = 3
  Meddles = FALSE
INVARIANTS
  OneChain
  ChainGoesOn
PROPERTIES
  TimersTick
CHECK_DEADLOCK FALSE

SPECIFICATION FairSpec
CONSTANTS
  a1 = a1
  listening = listening
  pouring = pouring
  Actor = {a1}
  Task = {listening, pouring}
  Owner <- MCOwner
  Kind <- MCKind
  Listens = {listening}
  MaxSends = 2
  MaxTurns = 1
  Nobody = Nobody
INVARIANTS
  WorkRings
PROPERTIES
  EveryWaitEnds
  ImplementsDeliveries
CHECK_DEADLOCK FALSE

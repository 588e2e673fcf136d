SPECIFICATION FairSpec
CONSTANTS
  w = w
  m = m
  a = a
  Worker = w
  Main = m
  App <- MCApp
  BatchSize = 2
  MaxPuts = 4
  Unserialisable <- MCUnserialisable
INVARIANTS
  TypeOK
  EveryEventInOnePlace
  CleanExitLosesAtMostABatch
PROPERTIES
  EverySettled
  ClientDelivers
CHECK_DEADLOCK FALSE

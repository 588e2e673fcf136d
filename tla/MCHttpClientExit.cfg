SPECIFICATION Spec
CONSTANTS
  w = w
  m = m
  a = a
  Worker = w
  Main = m
  App <- MCApp
  BatchSize = 2
  MaxPuts = 4
  Unserialisable <- MCUnserialisable
INVARIANT FlushOnExit
CHECK_DEADLOCK FALSE

SPECIFICATION FairSpec
CONSTANTS
  a = a
  b = b
  c = c
  d = d
  x = x
  q1 = q1
  q2 = q2
  none = none
  Thread = {u, v, w}
  NoThread = NoThread
  Trace = {"t1", "t2"}
  Project = {"p1"}
  Event <- MCEvent
  Query = {q1, q2}
  Chunk = {"k"}
  Slot = {"truth"}
  Value = {"v1", "v2"}
  NoNote = NoNote
  ChunksOf <- MCChunksOf
  NoQuery = none
  NoRow = NoRow
  TraceOf <- MCTraceOf
  ProjectOf <- MCProjectOf
  QueryOf <- MCQueryOf
  StartOf <- MCStartOf
  EndOf <- MCEndOf
  Failed = {b}
  Raising = {b}
  Batches <- MCBatches
  MaxConn = 2
INVARIANTS
  TypeOK
  AckedDurable
  CoveredUnlessStale
PROPERTIES
  EveryCallEnds
  
CHECK_DEADLOCK FALSE

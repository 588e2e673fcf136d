SPECIFICATION FanFairSpec
CONSTANTS
  a = a
  b = b
  c = c
  d = d
  q1 = q1
  q2 = q2
  none = none
  Thread = {t1, t2}
  NoThread = NoThread
  Trace <- MCTrace
  Project <- MCProject
  Event <- MCEvent
  Chunk = {"k"}
  Query <- MCQuery
  NoQuery = none
  NoRow = NoRow
  TraceOf <- MCTraceOf
  ProjectOf <- MCProjectOf
  QueryOf <- MCQueryOf
  StartOf <- MCStartOf
  EndOf <- MCEndOf
  Failed <- MCFailed
  HitsOf <- MCHitsOf
  BreaksAt <- MCBreaksAt
  Batches <- MCBatches
  MaxCalls = 3
INVARIANTS
  FanTypeOK
  StoreConsistent
  AckedDurable
  UncommittedIsOwned
  
  EachBackendAccounts
  TruthsAgree
PROPERTIES
  TraceRowsOnlyWiden
  EveryCallEnds
CHECK_DEADLOCK FALSE

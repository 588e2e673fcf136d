SPECIFICATION FairSpec
CONSTANTS
  p1 = p1
  e1 = e1
  e2 = e2
  Event = {e1, e2}
  Page = {p1}
  Project = {"A", "B"}
  ProjectOf <- MCProjectOf
  Opened <- MCOpened
  Unreliable = {p1}
  MaxConns = 2
INVARIANTS
  TypeOK
  
PROPERTIES
  
  QueuedCausesReload
CHECK_DEADLOCK FALSE

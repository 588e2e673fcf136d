SPECIFICATION FairSpec
CONSTANTS
  p1 = p1
  e1 = e1
  e2 = e2
  Event = {e1}
  Page = {p1}
  Project = {"A", "B"}
  ProjectOf <- MCProjectOf
  Opened <- MCOpened
  Unreliable = {}
  MaxConns = 1
PROPERTY AnnouncedIsShown
CHECK_DEADLOCK FALSE

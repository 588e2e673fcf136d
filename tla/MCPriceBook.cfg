SPECIFICATION Spec
CONSTANTS
  Thread = {t1, t2}
  Refresher = {inside, outside}
  Inside = {inside}
  Key = {"4o", "4o-mini", "mini", "x/4o"}
  Model = {"4o-mini-07", "4o-mini"}
  Price = {"p1", "p2", "p3", "p4", "p5", "p6", "b1", "b2"}
  NoPrice = NoPrice
  Unloaded = Unloaded
  Absent = Absent
  Torn = Torn
  Unset = Unset
  MemoSize = 1
  Occurs <- MCOccurs
  Length <- MCLength
  Raw <- MCRaw
  BuiltIn <- MCBuiltIn
INVARIANTS
  TypeOK
  
  CachedIsOnDisk
CHECK_DEADLOCK FALSE

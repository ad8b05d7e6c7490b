CONSTANTS
  c1 = c1
  c2 = c2
  n1 = n1
  n2 = n2
  r1 = r1
  r2 = r2
  Conn <- TwoConns
  Name <- OneName
  Row <- OneRow
  Saver = saver
  Main = main
  TokenRequired = TRUE
  MaxDrops = 1
SPECIFICATION FairSpec
INVARIANTS OneLockPerObject ExclusiveAccess SaveIsExclusive SharedMemory DropIsFinal DrainKeepsDue
PROPERTIES DrainTerminates
CHECK_DEADLOCK FALSE

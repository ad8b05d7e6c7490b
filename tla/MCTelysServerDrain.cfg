CONSTANTS
  c1 = c1
  c2 = c2
  n1 = n1
  n2 = n2
  r1 = r1
  r2 = r2
  Conn <- OneConn
  Name <- TwoNames
  Row <- OneRow
  Saver = saver
  Main = main
  TokenRequired = FALSE
  MaxDrops = 0
SPECIFICATION FairSpec
INVARIANTS DrainKeepsDue
PROPERTIES DrainTerminates
CHECK_DEADLOCK FALSE

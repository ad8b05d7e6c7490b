CONSTANTS
  f1 = f1
  p1 = p1
  p2 = p2
  c1 = c1
  c2 = c2
  File <- OneFile
  Proc <- OneProc
  Persistent <- OneProc
  Indexing <- OneProc
  Coll <- OneColl
  Default = c1
  Chunks <- Shrinking
  MaxEdits = 2
  MaxFaults = 1
SPECIFICATION Spec
INVARIANTS GuaranteedFresh

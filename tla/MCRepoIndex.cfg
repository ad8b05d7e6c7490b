CONSTANTS
  f1 = f1
  p1 = p1
  p2 = p2
  c1 = c1
  c2 = c2
  File <- OneFile
  Proc <- TwoProcs
  Persistent <- TwoProcs
  Indexing <- OneProc
  Coll <- TwoColls
  Default = c1
  Chunks <- Shrinking
  MaxEdits = 2
  MaxFaults = 1
SPECIFICATION Spec
INVARIANTS ChunksCover SearchIsFresh FingerprintHonest

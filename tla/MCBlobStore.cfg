CONSTANTS
  a = a
  b = b
  Key <- TwoKeys
  MaxPuts = 3
  MaxBatch = 2
  MaxCrashes = 2
  Tearing = FALSE
SPECIFICATION Spec
SYMMETRY Symmetric
INVARIANTS GetIsLatest DeletedUntilScan SnapshotCovered

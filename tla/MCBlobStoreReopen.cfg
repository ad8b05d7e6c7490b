CONSTANTS
  a = a
  b = b
  Key <- TwoKeys
  MaxPuts = 2
  MaxBatch = 1
  MaxCrashes = 1
  Tearing = FALSE
SPECIFICATION Spec
SYMMETRY Symmetric
INVARIANTS StoreReopens

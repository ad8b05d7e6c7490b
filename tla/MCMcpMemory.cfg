CONSTANTS
  p1 = p1
  p2 = p2
  a = a
  b = b
  Proc <- TwoProcs
  Id <- TwoIds
  None = none
  MaxWrites = 2
  MaxCrashes = 1
SPECIFICATION Spec
SYMMETRY Symmetric
INVARIANTS SaveUndisturbed AckedUnlessOverlapped

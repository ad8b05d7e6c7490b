CONSTANTS
  a = a
  b = b
  c = c
  Ids <- TwoIds
  v1 = v1
  v2 = v2
  Versions = {v1}
  Batches <- AllBatches
  StrOf <- OwnStr
  Lexical = FALSE
SPECIFICATION Spec
INVARIANTS NoDuplicateRows

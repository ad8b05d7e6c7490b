CONSTANTS
  p1 = p1
  p2 = p2
  l1 = l1
  good = good
  bad = bad
  Pid <- TwoPids
  Loader = {l1}
  Bundle = {good, bad}
  Sound = {good}
  License = {good, bad}
  Granting = {good}
  None = none
  MaxKills = 2
SPECIFICATION Spec
SYMMETRY Symmetric
INVARIANTS NothingHalfInstalled NothingLost FallbackHadCause

CONSTANTS
  Session = {s1, s2}
  NoSession = none
  Cut = cut
  Interval = 2
  MaxWait = 3
  MaxKills = 1
  MaxReinstalls = 1
SPECIFICATION LoginFairSpec
INVARIANTS NoMixture BoundToDevice
PROPERTIES LoginEnds
CHECK_DEADLOCK FALSE

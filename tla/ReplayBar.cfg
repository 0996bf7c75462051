SPECIFICATION FairSpec
CONSTANTS
  Vessels = {v1}
  Windows = {w1}
  None = None
  End = 1
  MaxReqs = 1
INVARIANT BarIsWanted

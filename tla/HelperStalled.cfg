CONSTANTS
  d1 = d1
  d2 = d2
  d3 = d3
  Dials = {d1, d2, d3}
  Capacity = 1
  Buffer = 3
  OOBFirst = TRUE
  MayDie = FALSE
  None = None
  Failed = Failed
  Canceled = Canceled
SPECIFICATION ServerFairSpec

PROPERTY CancelEndsDial
CHECK_DEADLOCK FALSE

CONSTANTS
  d1 = d1
  d2 = d2
  d3 = d3
  Dials = {d1, d2, d3}
  Capacity = 2
  Buffer = 1
  OOBFirst = TRUE
  MayDie = FALSE
  None = None
  Failed = Failed
  Canceled = Canceled
SPECIFICATION FairSpec

PROPERTY DialsEnd CancelEndsDial
CHECK_DEADLOCK FALSE

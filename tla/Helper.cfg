CONSTANTS
  d1 = d1
  d2 = d2
  d3 = d3
  Dials = {d1, d2, d3}
  Capacity = 2
  Buffer = 2
  OOBFirst = TRUE
  MayDie = TRUE
  None = None
  Failed = Failed
  Canceled = Canceled
SPECIFICATION Spec
SYMMETRY Symmetry
INVARIANT TypeOK RightConnection DialedIsDelivered NoCallForgotten ReaderEndsWithChild
CHECK_DEADLOCK FALSE

CONSTANTS
  p1 = p1
  p2 = p2
  k1 = k1
  k2 = k2
  small = small
  middle = middle
  large = large
  Keys = {k1, k2}
  Objects = {small, middle}
  Size <- MCSizeTwo
  Procs = {p1, p2}
  Limits = {2}
  NoFile = NoFile
  NoProc = NoProc
  NoKey = NoKey
  Broken = Broken
  MaxTime = 0
  MaxCrashes = 1
SPECIFICATION FairSpec
PROPERTY CallsReturn

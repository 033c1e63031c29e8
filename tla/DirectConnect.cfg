CONSTANTS
  n1 = n1
  n2 = n2
  k1 = k1
  k2 = k2
  old = old
  new = new
  Nodes = {n1, n2}
  Keys = {k1, k2}
  Secrets = {old, new}
  Second = 2
  Validity = 4
  Leeway = 2
  MaxSkew = 1
  MaxTime = 11
  MaxTokens = 2
  None = None
SPECIFICATION Spec
SYMMETRY Symmetry
INVARIANT TypeOK InTimeIsAccepted GrantIsRecent

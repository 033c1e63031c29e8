CONSTANTS
  n1 = n1
  n2 = n2
  a1 = a1
  a2 = a2
  alias = alias
  site = site
  r1 = r1
  r2 = r2
  Nodes = {n1, n2}
  Names = {a1, a2, alias, site}
  Addr <- MCAddr
  Resolve <- MCResolve
  Listed = {a1, alias}
  Target <- MCTarget
  Observer = n1
  Clients = {r1, r2}
  Origin = Origin
  None = None
SPECIFICATION FairSpec
PROPERTY SoundRequestsReturn LeavingEndsAll CallbackReturns
INVARIANT TypeOK OneLockPerRequest EachNodeReported HealthyIsRecognised TunnelHandedOver
CHECK_DEADLOCK FALSE

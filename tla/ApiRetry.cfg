SPECIFICATION Spec
CONSTANTS
  r1 = r1
  r2 = r2
  r3 = r3
  k1 = k1
  k2 = k2
  human = human
  agent = agent
  app = app
  prod = prod
  dep = dep
  NoKey = NoKey
  None = None
  Request <- MCRequest
  Key <- MCKey
  Token <- MCToken
  Scope <- MCScope
  Registered <- MCRegistered
  Environment <- MCEnvironment
  Production = prod
  Deployment <- MCDeployment
  Call <- MCImport
SYMMETRY MCSymmetry
INVARIANT
  SideEffectOnce
CHECK_DEADLOCK FALSE

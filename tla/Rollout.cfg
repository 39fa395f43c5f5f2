SPECIFICATION Spec
CONSTANTS
  MaxDeployments = 3
  Domain = {h1, h2}
INVARIANTS
  OnlyGatedServe
  CurrentIsUp
  DomainsFollowRollback
  TargetsStayGated
PROPERTIES
  FailedIsEarlyAndFinal
  RevivedOnlyToServe
CHECK_DEADLOCK FALSE
VIEW MCView

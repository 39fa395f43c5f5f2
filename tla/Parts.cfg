SPECIFICATION Spec
CONSTANTS
  Production = TRUE
  MaxEvents = 6
  PluginId = {p1, p2}
  Family = {"agent_provider", "deploy_provider"}
  MaxCall = 2
  Session = {s1, s2}
  Holder = {h1, h2}
  MaxWorkspace = 2
  Writer = {w1, w2, w3}
  MaxVersion = 4
  MaxAppend = 3
  MaxAge = 1
  KeepLatest = 2
  MaxNow = 4
  MaxEvidence = 4
  Pass = {r1, r2}
  Stage = {"build_test", "health", "human", "advisory"}
  Ref = {1, 2}
  MaxKey = 3
  MaxTrail = 5
  Snapshot <- MCSnapshot
  Finding <- MCFinding
  MaxFindings = 2
INVARIANTS
  ApprovalsAccounted
  NextIdIsUnused
  OneWorktreePerSession
  EveryVersionIsAccounted
  NoAppendIsLost
  FailuresAreKept
  StoredSecretsOpen
  RuntimeMatchesLanguage
PROPERTIES
  VerdictOnlyWorsens
  PluginsNeverDecide
SYMMETRY Permuted
CHECK_DEADLOCK FALSE

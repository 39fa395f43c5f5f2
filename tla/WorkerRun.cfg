SPECIFICATION WorkerSpec
CONSTANTS
  w1 = w1
  w2 = w2
  k1 = k1
  k2 = k2
  res = res
  NoWorker = NoWorker
  Worker <- MCWorker
  Key <- MCKey
  TargetOf <- MCTargetOf
  Destructive <- MCDestructive
  Lease = 1
  MaxAttempts = 2
  BaseDelay = 1
  Factor = 2
  MaxDelay = 4
  MaxTime = 2
  MaxLag = 2
  MaxInterruptions = 0
INVARIANTS
  RunsUntilStopped
CHECK_DEADLOCK FALSE

SPECIFICATION Spec
CONSTANTS
  w1 = w1
  w2 = w2
  k1 = k1
  k2 = k2
  app = app
  NoWorker = NoWorker
  Worker <- MCWorker
  Key <- MCKey
  TargetOf <- MCTargetOf
  Lease = 2
  MaxAttempts = 2
  BaseDelay = 1
  Factor = 2
  MaxDelay = 4
  MaxTime = 3
  MaxLag = 1
SYMMETRY MCSymmetry
INVARIANTS
  TypeOK
  LeaseExclusive
  ClaimsMatchRows
  DeadIsExplained
PROPERTIES
  OnlyTheCurrentAttemptAnswers
  SucceededIsFinal
  ImplementsContract
CHECK_DEADLOCK FALSE
VIEW MCView

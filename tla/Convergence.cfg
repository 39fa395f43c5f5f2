SPECIFICATION Spec
CONSTANTS
  Kind = {"application", "resource", "capability", "preview", "deployment"}
  MaxAttempts = 2
  Generations = 1000
  MaxUpsets = 2
  MaxFailures = 3
PROPERTY Converges
CHECK_DEADLOCK FALSE

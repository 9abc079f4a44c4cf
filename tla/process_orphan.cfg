SPECIFICATION Spec
CONSTANTS
  N = 1
  Plans <- AnyPlan
  ExitCodes = {0, 1}
  MaxLines = 1
  Forks = FALSE
INVARIANTS NoOrphans

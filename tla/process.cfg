SPECIFICATION Spec
CONSTANTS
  N = 2
  Plans <- SomePlans
  ExitCodes = {0, 1}
  MaxLines = 1
  Forks = TRUE
INVARIANTS RegisteredMeansStopped BinaryOutlivesProgram ZeroMeansClean OutputIsComplete ReadyMeansOwn
PROPERTIES TestsEnd
CHECK_DEADLOCK FALSE
